---- MODULE Spec2Model ----
(***************************************************************************)
(* KeraDB: paged document store (Pager, BufferPool, Serializer, Index,     *)
(* Executor) and the Database facade, as state machines.                   *)
(*                                                                         *)
(* Units.  A page payload is a sequence of cells (small naturals, one per  *)
(* byte of the source).  Length prefixes keep the source's byte layout     *)
(* (u32 and u64, little endian).  The JSON text of a document is one cell  *)
(* per member ("key":value), except the long string BLOB, whose text is    *)
(* BlobWidth cells wide.                                                   *)
(***************************************************************************)
EXTENDS Integers, Sequences, FiniteSets, TLC

(* ------------------------------ bounds -------------------------------- *)

\* Config.page_size, scaled down: 5 header cells + 4 + 8 length cells + members.
PageSize == 21
\* The file never grows beyond this many pages (guard of the allocating actions).
MaxPages == 3
\* Config.cache_size, scaled down so that eviction happens.
CacheSize == 1

(* --------------------------- program constants ------------------------ *)

PageTypeMeta == 0
PageTypeData == 1
PageTypeFree == 3
PageTypeMax == 5

Collections == {"c1", "c2"}

(* ------------------------------ JSON values --------------------------- *)

Str(s) == [t |-> "str", s |-> s]
Num(s) == [t |-> "num", s |-> s]
Obj(m) == [t |-> "obj", m |-> m]
EmptyMap == [k \in {} |-> Num("0")]

\* serde_json::Map::insert
MapInsert(m, key, val) ==
    [k \in (DOMAIN m) \cup {key} |-> IF k = key THEN val ELSE m[k]]

\* serde_json::Map::remove
MapRemove(m, key) == [k \in (DOMAIN m) \ {key} |-> m[k]]

\* Uuid::new_v4().to_string(): the n-th fresh identifier.
Uuid(n) == "u" \o ToString(n)

\* A string too long for any page.
BLOB == "BLOB"

\* Every JSON primitive the model writes, in a fixed order (the cell code of a value).
ValueTable ==
    << Num("1"), Num("2"), Num("7"), Str("x"), Str("zz"), Str("c1"), Str("c2"),
       Str(BLOB) >> \o [i \in 1..MaxPages |-> Str(Uuid(i))]

\* Member keys in the order serde_json's map iterates them (sorted).
KeyOrder == << "_collection", "_id", "pad", "v" >>

IndexOf(seq, x) == CHOOSE i \in 1..Len(seq) : seq[i] = x

(* ------------------------------ Document ------------------------------ *)

\* Document::with_id
DocumentWithId(id, data) == [id |-> id, data |-> data]

(* ----------------------------- byte helpers --------------------------- *)

RECURSIVE ToLE(_, _)
\* u32::to_le_bytes, and the u64 length bincode writes: w cells, little endian.
ToLE(n, w) == IF w = 0 THEN << >> ELSE << n % 256 >> \o ToLE(n \div 256, w - 1)

RECURSIVE FromLE(_)
\* u32::from_le_bytes
FromLE(bytes) ==
    IF bytes = << >> THEN 0 ELSE bytes[1] + 256 * FromLE(Tail(bytes))

RECURSIVE WeightedSum(_, _)
WeightedSum(data, i) ==
    IF i > Len(data) THEN 0 ELSE i * data[i] + WeightedSum(data, i + 1)

\* crc32fast::hash over the payload.  A position-weighted sum modulo a prime
\* larger than any single-cell change: like CRC-32 it changes whenever one bit
\* of the payload changes.
crc32(data) == WeightedSum(data, 1) % 65521

\* One bit of one cell inverted.
FlipBitOfCell(cell, bit) ==
    LET p == IF bit = 0 THEN 1 ELSE IF bit = 1 THEN 2 ELSE IF bit = 2 THEN 4
             ELSE IF bit = 3 THEN 8 ELSE IF bit = 4 THEN 16 ELSE IF bit = 5 THEN 32
             ELSE IF bit = 6 THEN 64 ELSE 128
    IN IF (cell \div p) % 2 = 1 THEN cell - p ELSE cell + p

(* ------------------------------- results ------------------------------ *)

NoVal == "-"
Ok(v) == [ok |-> TRUE, err |-> "none", val |-> v]
Err(e) == [ok |-> FALSE, err |-> e, val |-> NoVal]

(* ------------------------------ Serializer ---------------------------- *)

\* The payload region of a page: page_size - 5 (1 cell kind + 4 cells checksum).
DataSize == PageSize - 5

BlobWidth == DataSize

\* Cells of the JSON text of one value.
Width(val) == IF val = Str(BLOB) THEN BlobWidth ELSE 1

MemberCode(k, val) == (IndexOf(KeyOrder, k) - 1) * 32 + IndexOf(ValueTable, val)

MemberText(k, val) ==
    << MemberCode(k, val) >> \o [i \in 1..(Width(val) - 1) |-> 255]

RECURSIVE ObjectText(_, _)
\* The members of a map, in key order.
ObjectText(m, i) ==
    IF i > Len(KeyOrder) THEN << >>
    ELSE (IF KeyOrder[i] \in DOMAIN m
          THEN MemberText(KeyOrder[i], m[KeyOrder[i]]) ELSE << >>)
         \o ObjectText(m, i + 1)

\* serde_json::to_string(doc): the renamed id member, then the flattened data;
\* a member "_id" of the data is written as it is, a second time.
ToJsonString(doc) == MemberText("_id", Str(doc.id)) \o ObjectText(doc.data.m, 1)

\* Serializer::serialize: bincode of the JSON string (u64 length, then the text).
Serialize(doc) ==
    LET text == ToJsonString(doc) IN ToLE(Len(text), 8) \o text

RECURSIVE ParseMembers(_)
\* serde_json reading the members of the text back.
ParseMembers(text) ==
    IF text = << >> THEN [ok |-> TRUE, members |-> << >>]
    ELSE LET ki == text[1] \div 32
             vi == text[1] % 32
             bad == [ok |-> FALSE, members |-> << >>]
         IN IF ~(ki \in 0..(Len(KeyOrder) - 1) /\ vi \in 1..Len(ValueTable)) THEN bad
            ELSE LET val == ValueTable[vi]
                     w == Width(val)
                 IN IF Len(text) < w THEN bad
                    ELSE LET rest == ParseMembers(SubSeq(text, w + 1, Len(text)))
                         IN IF rest.ok
                            THEN [ok |-> TRUE,
                                  members |-> << << KeyOrder[ki + 1], val >> >> \o rest.members]
                            ELSE bad

RECURSIVE VisitMap(_, _, _)
\* The derived Deserialize of Document (id renamed "_id", data flattened): a
\* known field seen twice is an error, the other members are collected.
VisitMap(members, id, m) ==
    IF members = << >>
    THEN IF id = << >> THEN Err("Serialization")
         ELSE Ok(DocumentWithId(id[1], Obj(m)))
    ELSE LET k == members[1][1]
             val == members[1][2]
         IN IF k = "_id"
            THEN IF id # << >> THEN Err("Serialization")
                 ELSE IF val.t # "str" THEN Err("Serialization")
                 ELSE VisitMap(Tail(members), << val.s >>, m)
            ELSE VisitMap(Tail(members), id, MapInsert(m, k, val))

\* Serializer::deserialize
Deserialize(bytes) ==
    IF Len(bytes) < 8 THEN Err("Serialization")
    ELSE LET n == FromLE(SubSeq(bytes, 1, 8))
         IN IF Len(bytes) - 8 < n THEN Err("Serialization")
            ELSE LET parsed == ParseMembers(SubSeq(bytes, 9, 8 + n))
                 IN IF parsed.ok THEN VisitMap(parsed.members, << >>, EmptyMap)
                    ELSE Err("Serialization")

(* -------------------------------- Pager ------------------------------- *)

Zeroes(n) == [i \in 1..n |-> 0]

\* Page::new
NewPage(page_num, page_type, data) ==
    [page_num |-> page_num, page_type |-> page_type,
     checksum |-> crc32(data), data |-> data]

\* Page::verify_checksum
VerifyChecksum(page) == crc32(page.data) = page.checksum

\* Pager::read_page on a file (a sequence of stored pages) with page_count pages.
ReadPage(fl, pcount, page_num) ==
    IF page_num >= pcount THEN Err("StorageError")
    ELSE LET stored == fl[page_num + 1]
         IN IF ~(stored.page_type \in PageTypeMeta..PageTypeMax) THEN Err("InvalidFormat")
            ELSE LET page == [page_num |-> page_num, page_type |-> stored.page_type,
                              checksum |-> stored.checksum, data |-> stored.data]
                 IN IF ~VerifyChecksum(page) THEN Err("ChecksumMismatch")
                    ELSE Ok(page)

\* Pager::write_page: the payload padded with zeroes, the checksum computed
\* over the padded payload, the page count raised when the page is new.
WritePage(fl, pcount, page) ==
    IF Len(page.data) > DataSize THEN [ok |-> FALSE, file |-> fl, page_count |-> pcount]
    ELSE LET padded == page.data \o Zeroes(DataSize - Len(page.data))
             stored == [page_type |-> page.page_type, checksum |-> crc32(padded),
                        data |-> padded]
             nfile == IF page.page_num < Len(fl)
                      THEN [fl EXCEPT ![page.page_num + 1] = stored]
                      ELSE Append(fl, stored)
         IN [ok |-> TRUE, file |-> nfile,
             page_count |-> IF page.page_num >= pcount THEN page.page_num + 1 ELSE pcount]

\* Pager::allocate_page
AllocatePage(fl, pcount, page_type) ==
    WritePage(fl, pcount, NewPage(pcount, page_type, Zeroes(PageSize - 5)))

(* ------------------------------ BufferPool ---------------------------- *)

\* BufferPool::get
CacheGet(cch, page_num) ==
    IF page_num \in DOMAIN cch THEN << cch[page_num] >> ELSE << >>

CacheWith(cch, page) ==
    [n \in (DOMAIN cch) \cup {page.page_num} |->
        IF n = page.page_num THEN page ELSE cch[n]]

\* BufferPool::remove
CacheRemove(cch, page_num) == [n \in (DOMAIN cch) \ {page_num} |-> cch[n]]

\* BufferPool::put: every cache the call can leave.  A full pool first drops
\* the key its hash map iterates first, which is any of its keys.
PoolPut(cch, page, max_size) ==
    IF Cardinality(DOMAIN cch) >= max_size /\ DOMAIN cch # {}
    THEN { CacheWith(CacheRemove(cch, key), page) : key \in DOMAIN cch }
    ELSE { CacheWith(cch, page) }

\* BufferPool::put of the executor's pool, whose capacity is Config.cache_size.
CachePut(cch, page) == PoolPut(cch, page, CacheSize)

\* BufferPool::new
BufferPoolNew(max_size) == [max_size |-> max_size, cache |-> [k \in {} |-> 0]]

(* --------------------------------- Index ------------------------------ *)

IndexEntry(doc_id, page_num, offset) ==
    [doc_id |-> doc_id, page_num |-> page_num, offset |-> offset]

Bucket(idx, collection) ==
    IF collection \in DOMAIN idx THEN idx[collection] ELSE [k \in {} |-> 0]

\* Index::insert without the contains_key test: the entry is replaced.
IndexInsertOverwrites(idx, collection, doc_id, page_num, offset) ==
    LET b == Bucket(idx, collection)
    IN [ok |-> TRUE,
        index |-> [c \in (DOMAIN idx) \cup {collection} |->
                     IF c = collection
                     THEN [k \in (DOMAIN b) \cup {doc_id} |->
                             IF k = doc_id THEN IndexEntry(doc_id, page_num, offset)
                             ELSE b[k]]
                     ELSE idx[c]]]

\* Index::insert: the bucket is created first (entry().or_default()), then a
\* key already present is refused.
IndexInsert(idx, collection, doc_id, page_num, offset) ==
    LET b == Bucket(idx, collection)
        withBucket == [c \in (DOMAIN idx) \cup {collection} |->
                          IF c = collection THEN b ELSE idx[c]]
    IN IF doc_id \in DOMAIN b
       THEN [ok |-> FALSE, index |-> withBucket]
       ELSE [ok |-> TRUE,
             index |-> [withBucket EXCEPT ![collection] =
                          [k \in (DOMAIN b) \cup {doc_id} |->
                              IF k = doc_id THEN IndexEntry(doc_id, page_num, offset)
                              ELSE b[k]]]]

\* Index::find
IndexFind(idx, collection, doc_id) ==
    LET b == Bucket(idx, collection)
    IN IF doc_id \in DOMAIN b THEN << b[doc_id] >> ELSE << >>

\* Index::remove
IndexRemove(idx, collection, doc_id) ==
    IF collection \in DOMAIN idx /\ doc_id \in DOMAIN idx[collection]
    THEN [idx EXCEPT ![collection] =
             [k \in (DOMAIN idx[collection]) \ {doc_id} |-> idx[collection][k]]]
    ELSE idx

\* Index::list_ids
IndexListIds(idx, collection) == DOMAIN Bucket(idx, collection)

\* Index::count
IndexCount(idx, collection) == Cardinality(DOMAIN Bucket(idx, collection))

\* Index::list_collections
IndexListCollections(idx) == DOMAIN idx

(* -------------------------------- Executor ---------------------------- *)

\* The fields of an Executor and of the file under its Pager.
ExecutorOf(fl, pcount, cch, idx, colls) ==
    [file |-> fl, page_count |-> pcount, cache |-> cch, index |-> idx,
     collections |-> colls]

Outcome(ex, res) == [ex |-> ex, res |-> res]

\* dst[off .. off + len(src)].copy_from_slice(src), off counted from 0.
CopyFromSlice(dst, off, src) ==
    [i \in 1..Len(dst) |->
        IF i > off /\ i <= off + Len(src) THEN src[i - off] ELSE dst[i]]

\* Executor::extract_document_from_page
ExtractDocumentFromPage(page) ==
    IF Len(page.data) < 4 THEN Err("StorageError")
    ELSE LET len == FromLE(SubSeq(page.data, 1, 4))
         IN IF len = 0 \/ len + 4 > Len(page.data) THEN Err("StorageError")
            ELSE Deserialize(SubSeq(page.data, 5, 4 + len))

\* Executor::update_collection_metadata (the timestamps are not modelled).
UpdateCollectionMetadata(colls, collection, delta) ==
    LET old == IF collection \in DOMAIN colls THEN colls[collection] ELSE 0
        new == IF delta > 0 THEN old + delta
               ELSE IF old < -delta THEN 0 ELSE old + delta
    IN [c \in (DOMAIN colls) \cup {collection} |->
           IF c = collection THEN new ELSE colls[c]]

\* Does insert get as far as Document::new (a fresh id is drawn)?
DrawsFreshId(data) == data.t = "obj" /\ ~("_id" \in DOMAIN data.m)

\* Does insert get as far as allocate_page?
ReachesAllocate(data) ==
    data.t = "obj" /\ ("_id" \in DOMAIN data.m => data.m["_id"].t = "str")

\* InsertDocument without map.remove("_id"): the id stays in the data as well.
InsertDocumentKeepsId(collection, data, fresh_id) ==
    LET m == MapInsert(data.m, "_collection", Str(collection))
    IN IF "_id" \in DOMAIN m
       THEN DocumentWithId(m["_id"].s, Obj(m))
       ELSE DocumentWithId(fresh_id, Obj(m))

\* The document insert builds: "_collection" set, "_id" taken out as the id.
InsertDocument(collection, data, fresh_id) ==
    LET m == MapInsert(data.m, "_collection", Str(collection))
    IN IF "_id" \in DOMAIN m
       THEN DocumentWithId(m["_id"].s, Obj(MapRemove(m, "_id")))
       ELSE DocumentWithId(fresh_id, Obj(m))

\* Executor::insert under the pager lock: a page is allocated and read back, the
\* length and the document are copied in and the page is written; a document
\* that does not fit leaves the allocated page as it is.
WriteNewDocument(fl, pcount, doc) ==
    LET doc_bytes == Serialize(doc)
        alloc == AllocatePage(fl, pcount, PageTypeData)
        blank == ReadPage(alloc.file, alloc.page_count, pcount).val
    IN IF Len(doc_bytes) + 4 > Len(blank.data)
       THEN [ok |-> FALSE, file |-> alloc.file, page_count |-> alloc.page_count,
             page |-> blank]
       ELSE
       LET bytes == CopyFromSlice(
                        CopyFromSlice(blank.data, 0, ToLE(Len(doc_bytes), 4)),
                        4, doc_bytes)
           page == [blank EXCEPT !.data = bytes, !.checksum = crc32(bytes)]
           wr == WritePage(alloc.file, alloc.page_count, page)
       IN [ok |-> TRUE, file |-> wr.file, page_count |-> wr.page_count, page |-> page]

\* Executor::insert: the outcomes (executor after the call, result) of one call.
ExecInsert(ex, collection, data, fresh_id) ==
    IF data.t # "obj" THEN { Outcome(ex, Err("InvalidDocument")) }
    ELSE IF "_id" \in DOMAIN data.m /\ data.m["_id"].t # "str"
    THEN { Outcome(ex, Err("InvalidDocument")) }
    ELSE
    LET doc == InsertDocument(collection, data, fresh_id)
        w == WriteNewDocument(ex.file, ex.page_count, doc)
        written == [ex EXCEPT !.file = w.file, !.page_count = w.page_count]
    IN IF ~w.ok THEN { Outcome(written, Err("StorageError")) }
       ELSE
       LET reg == IndexInsert(ex.index, collection, doc.id, ex.page_count, 0)
       IN IF ~reg.ok
          THEN { Outcome([written EXCEPT !.index = reg.index], Err("DuplicateKey")) }
          ELSE { Outcome([written EXCEPT
                            !.index = reg.index,
                            !.collections =
                                UpdateCollectionMetadata(ex.collections, collection, 1),
                            !.cache = cch],
                         Ok(doc.id)) : cch \in CachePut(ex.cache, w.page) }

\* Executor::find_by_id
ExecFindById(ex, collection, doc_id) ==
    LET entry == IndexFind(ex.index, collection, doc_id)
    IN IF entry = << >> THEN { Outcome(ex, Err("DocumentNotFound")) }
       ELSE
       LET hit == CacheGet(ex.cache, entry[1].page_num)
       IN IF hit # << >> THEN { Outcome(ex, ExtractDocumentFromPage(hit[1])) }
          ELSE
          LET rd == ReadPage(ex.file, ex.page_count, entry[1].page_num)
          IN IF ~rd.ok THEN { Outcome(ex, rd) }
             ELSE { Outcome([ex EXCEPT !.cache = cch], ExtractDocumentFromPage(rd.val))
                      : cch \in CachePut(ex.cache, rd.val) }

\* The result of find_by_id alone (the same in every outcome).
FindResult(ex, collection, doc_id) ==
    (CHOOSE o \in ExecFindById(ex, collection, doc_id) : TRUE).res

\* The document update builds: "_collection" set, the body kept as it is.
UpdateDocument(collection, doc_id, data) ==
    DocumentWithId(doc_id, Obj(MapInsert(data.m, "_collection", Str(collection))))

\* Executor::update under the pager lock: the page is read (whatever its kind),
\* the length and the document are copied in and the page is written back.
RewriteDocument(fl, pcount, page_num, doc) ==
    LET doc_bytes == Serialize(doc)
        rd == ReadPage(fl, pcount, page_num)
    IN IF ~rd.ok THEN [res |-> rd, file |-> fl, page_count |-> pcount]
       ELSE IF Len(doc_bytes) + 4 > Len(rd.val.data)
       THEN [res |-> Err("StorageError"), file |-> fl, page_count |-> pcount]
       ELSE
       LET bytes == CopyFromSlice(
                        CopyFromSlice(rd.val.data, 0, ToLE(Len(doc_bytes), 4)),
                        4, doc_bytes)
           page == [rd.val EXCEPT !.data = bytes, !.checksum = crc32(bytes)]
           wr == WritePage(fl, pcount, page)
       IN [res |-> Ok(NoVal), file |-> wr.file, page_count |-> wr.page_count]

\* Executor::update
ExecUpdate(ex, collection, doc_id, data) ==
    IF data.t # "obj" THEN Outcome(ex, Err("InvalidDocument"))
    ELSE
    LET entry == IndexFind(ex.index, collection, doc_id)
    IN IF entry = << >> THEN Outcome(ex, Err("DocumentNotFound"))
       ELSE
       LET doc == UpdateDocument(collection, doc_id, data)
           w == RewriteDocument(ex.file, ex.page_count, entry[1].page_num, doc)
       IN IF ~w.res.ok THEN Outcome(ex, w.res)
          ELSE Outcome([ex EXCEPT !.file = w.file, !.page_count = w.page_count,
                                  !.cache = CacheRemove(ex.cache, entry[1].page_num)],
                       Ok(doc))

\* Executor::delete under the pager lock: the page is read and written back as
\* a Free page with a zeroed payload.
FreePage(fl, pcount, page_num) ==
    LET rd == ReadPage(fl, pcount, page_num)
    IN IF ~rd.ok THEN [res |-> rd, file |-> fl, page_count |-> pcount]
       ELSE
       LET zero == Zeroes(Len(rd.val.data))
           page == [rd.val EXCEPT !.page_type = PageTypeFree, !.data = zero,
                                  !.checksum = crc32(zero)]
           wr == WritePage(fl, pcount, page)
       IN [res |-> Ok(NoVal), file |-> wr.file, page_count |-> wr.page_count]

\* The part of delete after its find_by_id returned doc.
DeleteFound(ex, collection, doc_id, doc) ==
    LET entry == IndexFind(ex.index, collection, doc_id)
        unindexed == [ex EXCEPT !.index = IndexRemove(ex.index, collection, doc_id)]
    IN IF entry = << >> THEN Outcome(ex, Err("DocumentNotFound"))
       ELSE
       LET w == FreePage(ex.file, ex.page_count, entry[1].page_num)
       IN IF ~w.res.ok THEN Outcome(unindexed, w.res)
          ELSE Outcome([unindexed EXCEPT
                          !.file = w.file, !.page_count = w.page_count,
                          !.cache = CacheRemove(ex.cache, entry[1].page_num),
                          !.collections =
                              UpdateCollectionMetadata(ex.collections, collection, -1)],
                       Ok(doc))

\* Executor::delete
ExecDelete(ex, collection, doc_id) ==
    { IF found.res.ok
      THEN DeleteFound(found.ex, collection, doc_id, found.res.val)
      ELSE found
        : found \in ExecFindById(ex, collection, doc_id) }

\* The orders in which a hash map can iterate the keys in S.
Orders(S) ==
    { f \in [1..Cardinality(S) -> S] : \A i, j \in 1..Cardinality(S) : i # j => f[i] # f[j] }

RECURSIVE FindEach(_, _, _)
\* The loop of find_all: find_by_id on each id, the failures left out.
FindEach(ex, collection, ids) ==
    IF ids = << >> THEN { [ex |-> ex, docs |-> << >>] }
    ELSE UNION {
           { [ex |-> rest.ex,
              docs |-> (IF o.res.ok THEN << o.res.val >> ELSE << >>) \o rest.docs]
               : rest \in FindEach(o.ex, collection, Tail(ids)) }
             : o \in ExecFindById(ex, collection, Head(ids)) }

\* Option<usize>: None is << >>, Some(n) is << n >>.
None == << >>
Some(n) == << n >>

\* Executor::find_all: skip, then take limit, of the ids as the index lists them
\* (no skip is 0, no limit is every id).
ExecFindAll(ex, collection, limit, skip) ==
    UNION {
      LET sk == IF skip = None THEN 0 ELSE skip[1]
          after == IF sk >= Len(order) THEN << >> ELSE SubSeq(order, sk + 1, Len(order))
          taken == IF limit = None \/ limit[1] >= Len(after) THEN after
                   ELSE SubSeq(after, 1, limit[1])
      IN { Outcome(r.ex, Ok(r.docs)) : r \in FindEach(ex, collection, taken) }
        : order \in Orders(IndexListIds(ex.index, collection)) }

\* Executor::count
ExecCount(ex, collection) == IndexCount(ex.index, collection)

\* Executor::list_collections
ExecListCollections(ex) ==
    { << name, IndexCount(ex.index, name) >> : name \in IndexListCollections(ex.index) }

RECURSIVE RebuildFrom(_, _)
\* The loop of Executor::rebuild_index from page_num on: pages that do not
\* read, are not Data or do not decode are skipped; an index error ends the
\* scan (the ? on index.insert).
RebuildFrom(ex, page_num) ==
    IF page_num >= ex.page_count THEN ex
    ELSE
    LET rd == ReadPage(ex.file, ex.page_count, page_num)
    IN IF ~rd.ok THEN RebuildFrom(ex, page_num + 1)
       ELSE IF rd.val.page_type # PageTypeData THEN RebuildFrom(ex, page_num + 1)
       ELSE
       LET doc == ExtractDocumentFromPage(rd.val)
       IN IF ~doc.ok THEN RebuildFrom(ex, page_num + 1)
          ELSE IF ~("_collection" \in DOMAIN doc.val.data.m
                    /\ doc.val.data.m["_collection"].t = "str")
          THEN RebuildFrom(ex, page_num + 1)
          ELSE
          LET name == doc.val.data.m["_collection"].s
              reg == IndexInsert(ex.index, name, doc.val.id, page_num, 0)
          IN IF ~reg.ok THEN [ex EXCEPT !.index = reg.index]
             ELSE RebuildFrom(
                    [ex EXCEPT !.index = reg.index,
                               !.collections =
                                   UpdateCollectionMetadata(ex.collections, name, 1)],
                    page_num + 1)

EmptyFcn == [k \in {} |-> 0]
FcnWith(f, k, v) == [x \in (DOMAIN f) \cup {k} |-> IF x = k THEN v ELSE f[x]]
FcnWithout(f, k) == [x \in (DOMAIN f) \ {k} |-> f[x]]

\* Pager::open then Executor::new on the file: the page count is the header's,
\* the pool and the index start empty, the index is rebuilt from the pages.
OpenExecutor(fl) ==
    RebuildFrom(ExecutorOf(fl, Len(fl), EmptyFcn, EmptyFcn, EmptyFcn), 0)

(* --------------------------- vector collections ----------------------- *)
(* An f32 is the text of its value: "1.5", or "NaN" for a value that is    *)
(* not finite.  Of the HNSW graph the nodes, their vectors, the entry      *)
(* point and the id counter are kept; the neighbour lists and the layers,  *)
(* which only the search reads, are not.                                   *)

\* Each vector collection takes at most this many vectors (guard of InsertVector).
MaxVectors == 2
\* MAX_LAYERS, scaled down: random_layer draws a layer below it.
MaxLayers == 2
Layers == 0..(MaxLayers - 1)

IsFinite(x) == x \notin { "NaN", "inf", "-inf" }

JsonNull == [t |-> "null", s |-> "null"]

\* serde_json's serialize_f32: a value that is not finite is written as null.
F32ToJson(x) == IF IsFinite(x) THEN Num(x) ELSE JsonNull

\* serde_json reading an f32: only a number is taken.
F32FromJson(j) == IF j.t = "num" THEN Ok(j.s) ELSE Err("StorageError")

\* A u64 map key as serde_json writes it (a string), and read back.
U64ToKey(n) == ToString(n)
U64FromKey(k) == CHOOSE n \in 0..(MaxVectors + 1) : ToString(n) = k

\* The value of a finite f32 of the model, in halves.
Halves(x) == CASE x = "0.5" -> 1 [] x = "1.5" -> 3 [] x = "2.5" -> 5 [] OTHER -> 0

\* f32::NAN as a distance.
NaN == -999

\* f32::sqrt, exact on the sums of squares the model's vectors give.
Sqrt(n) == CHOOSE r \in 0..n : r * r <= n /\ (r + 1) * (r + 1) > n

Abs(n) == IF n < 0 THEN 0 - n ELSE n

RECURSIVE SumOver(_, _, _, _)
\* a.iter().zip(b.iter()).map(term).sum(): the terms are products or
\* differences of the components, by kind.
SumOver(kind, a, b, i) ==
    IF i > Len(a) \/ i > Len(b) THEN 0
    ELSE LET x == Halves(a[i])
             y == Halves(b[i])
             term == IF kind = "dot" THEN x * y
                     ELSE IF kind = "square" THEN (x - y) * (x - y)
                     ELSE Abs(x - y)
         IN term + SumOver(kind, a, b, i + 1)

\* A let binding: the value is computed once and named in what follows.
With(x, F(_)) == F(x)

\* Iterator::take
Take(seq, n) == SubSeq(seq, 1, IF n < Len(seq) THEN n ELSE Len(seq))

\* distance::cosine_distance, lines 31-35, from the dot product (in quarters)
\* and the norms (in halves); in units, exact for vectors of one dimension.
CosineOf(dot, norm_a, norm_b) ==
    IF norm_a = 0 \/ norm_b = 0 THEN 1
    ELSE IF dot \div (norm_a * norm_b) > 1 THEN 0
    ELSE IF dot \div (norm_a * norm_b) < -1 THEN 2
    ELSE 1 - (dot \div (norm_a * norm_b))

\* distance::cosine_distance
CosineDistance(a, b) ==
    CosineOf(SumOver("dot", a, b, 1), Sqrt(SumOver("dot", a, a, 1)),
             Sqrt(SumOver("dot", b, b, 1)))

\* distance::calculate_distance: Cosine in units, Euclidean and Manhattan in
\* halves, DotProduct in quarters; NaN when a component is not finite.
CalculateDistance(a, b, metric) ==
    IF \E i \in 1..Len(a) : ~IsFinite(a[i]) THEN NaN
    ELSE IF \E i \in 1..Len(b) : ~IsFinite(b[i]) THEN NaN
    ELSE IF metric = "Cosine" THEN CosineDistance(a, b)
    ELSE IF metric = "Euclidean" THEN Sqrt(SumOver("square", a, b, 1))
    ELSE IF metric = "DotProduct" THEN 0 - SumOver("dot", a, b, 1)
    ELSE SumOver("abs", a, b, 1)

\* f32 comparisons: each is false when an operand is NaN.
Lt(x, y) == x # NaN /\ y # NaN /\ x < y

\* a.partial_cmp(&b).unwrap_or(Ordering::Equal): -1 Less, 0 Equal, 1 Greater.
PartialCmp(x, y) == IF Lt(x, y) THEN -1 ELSE IF Lt(y, x) THEN 1 ELSE 0

\* Candidate
Candidate(id, distance) == [id |-> id, distance |-> distance]

\* a <= b by Ord::cmp of Candidate ("min": the order is reversed) or of
\* MaxCandidate ("max").
HeapLe(kind, a, b) ==
    IF kind = "max" THEN PartialCmp(a.distance, b.distance) <= 0
    ELSE PartialCmp(b.distance, a.distance) <= 0

\* A BinaryHeap is its vector, here with positions from 0.
Swap(h, i, j) == [h EXCEPT ![i + 1] = h[j + 1], ![j + 1] = h[i + 1]]

RECURSIVE SiftUp(_, _, _, _)
\* BinaryHeap::sift_up
SiftUp(h, kind, start, pos) ==
    IF pos <= start THEN h
    ELSE LET parent == (pos - 1) \div 2
         IN IF HeapLe(kind, h[pos + 1], h[parent + 1]) THEN h
            ELSE SiftUp(Swap(h, pos, parent), kind, start, parent)

\* BinaryHeap::push
HeapPush(h, kind, item) == SiftUp(Append(h, item), kind, 0, Len(h))

RECURSIVE SiftDownToBottom(_, _, _)
\* BinaryHeap::sift_down_to_bottom, up to its closing sift_up: the heap and
\* where the hole ended.
SiftDownToBottom(h, kind, pos) ==
    LET end == Len(h)
        child == 2 * pos + 1
    IN IF end >= 2 /\ child <= end - 2
       THEN LET greater == IF HeapLe(kind, h[child + 1], h[child + 2]) THEN child + 1
                           ELSE child
            IN SiftDownToBottom(Swap(h, pos, greater), kind, greater)
       ELSE IF child = end - 1 THEN [h |-> Swap(h, pos, child), pos |-> child]
       ELSE [h |-> h, pos |-> pos]

\* BinaryHeap::pop on a heap that is not empty: the heap it leaves.
HeapPop(h, kind) ==
    IF Len(h) <= 1 THEN << >>
    ELSE With(SiftDownToBottom([SubSeq(h, 1, Len(h) - 1) EXCEPT ![1] = h[Len(h)]], kind, 0),
              LAMBDA down : SiftUp(down.h, kind, 0, down.pos))

RECURSIVE SortByDistance(_)
\* slice::sort_by on the distances (a stable sort): each element goes behind
\* the elements before it that are not greater.
SortByDistance(seq) ==
    IF seq = << >> THEN seq
    ELSE LET front == SortByDistance(SubSeq(seq, 1, Len(seq) - 1))
             x == seq[Len(seq)]
             keep == Cardinality({ i \in 1..Len(front) :
                                     \A j \in 1..i :
                                        PartialCmp(front[j].distance, x.distance) <= 0 })
         IN SubSeq(front, 1, keep) \o << x >> \o SubSeq(front, keep + 1, Len(front))

\* HnswNode::get_neighbors
GetNeighbors(node, layer) ==
    IF layer < Len(node.neighbors) THEN node.neighbors[layer + 1] ELSE << >>

\* HnswIndex::distance_to_node (every node of the model has its vector)
DistanceToNode(ix, query, node_id) ==
    IF node_id \notin DOMAIN ix.nodes THEN Err("NotFound")
    ELSE Ok(CalculateDistance(query, ix.nodes[node_id].vector, ix.config.distance))

RECURSIVE ScanNeighbors(_, _, _, _, _)
\* HnswIndex::search_layer_single, the loop over the neighbours of one node:
\* at holds the nearest node so far, its distance and whether it changed.
ScanNeighbors(ix, query, neighbors, i, at) ==
    IF i > Len(neighbors) THEN at
    ELSE With(DistanceToNode(ix, query, neighbors[i]), LAMBDA dist :
            IF ~dist.ok THEN [at EXCEPT !.ok = FALSE]
            ELSE ScanNeighbors(ix, query, neighbors, i + 1,
                    IF Lt(dist.val, at.dist)
                    THEN [at EXCEPT !.current = neighbors[i], !.dist = dist.val,
                                    !.changed = TRUE]
                    ELSE at))

RECURSIVE Descend(_, _, _, _, _)
\* HnswIndex::search_layer_single, the outer loop: the node it ends at, or
\* << >> when a node is not in the table (NotFound).
Descend(ix, query, layer, current, current_dist) ==
    IF current \notin DOMAIN ix.nodes THEN << >>
    ELSE With(ScanNeighbors(ix, query, GetNeighbors(ix.nodes[current], layer), 1,
                            [ok |-> TRUE, current |-> current, dist |-> current_dist,
                             changed |-> FALSE]),
              LAMBDA at :
                 IF ~at.ok THEN << >>
                 ELSE IF at.changed THEN Descend(ix, query, layer, at.current, at.dist)
                 ELSE << at.current >>)

\* HnswIndex::search_layer_single
SearchLayerSingle(ix, query, entry, layer) ==
    With(DistanceToNode(ix, query, entry), LAMBDA entry_dist :
       IF ~entry_dist.ok THEN << >>
       ELSE Descend(ix, query, layer, entry, entry_dist.val))

\* HnswIndex::search_layer, lines 388-405: a neighbour seen for the first time
\* joins candidates (a min-heap) and results (a max-heap of at most ef) when
\* results has room or the neighbour is nearer than the worst result.
Visit(beam, ef, item) ==
    IF \/ Len(beam.results) < ef
       \/ IF beam.results # << >> THEN Lt(item.distance, beam.results[1].distance)
          ELSE TRUE
    THEN [beam EXCEPT
            !.candidates = HeapPush(@, "min", item),
            !.results = IF Len(@) + 1 > ef THEN HeapPop(HeapPush(@, "max", item), "max")
                        ELSE HeapPush(@, "max", item)]
    ELSE beam

RECURSIVE Explore(_, _, _, _, _, _)
\* HnswIndex::search_layer, the loop over the neighbours of the candidate
\* popped: beam holds visited, candidates and results.
Explore(ix, query, ef, neighbors, i, beam) ==
    IF i > Len(neighbors) THEN beam
    ELSE IF neighbors[i] \in beam.visited
    THEN Explore(ix, query, ef, neighbors, i + 1, beam)
    ELSE With(DistanceToNode(ix, query, neighbors[i]), LAMBDA dist :
            IF ~dist.ok THEN [beam EXCEPT !.ok = FALSE]
            ELSE Explore(ix, query, ef, neighbors, i + 1,
                         Visit([beam EXCEPT !.visited = @ \cup { neighbors[i] }], ef,
                               Candidate(neighbors[i], dist.val))))

RECURSIVE Beam(_, _, _, _, _)
\* HnswIndex::search_layer, the loop over the candidates.
Beam(ix, query, ef, layer, beam) ==
    IF ~beam.ok \/ beam.candidates = << >> THEN beam
    ELSE IF /\ beam.results # << >>
            /\ Lt(beam.results[1].distance, beam.candidates[1].distance)
            /\ Len(beam.results) >= ef
    THEN [beam EXCEPT !.candidates = HeapPop(@, "min")]
    ELSE Beam(ix, query, ef, layer,
              Explore(ix, query, ef,
                      IF beam.candidates[1].id \in DOMAIN ix.nodes
                      THEN GetNeighbors(ix.nodes[beam.candidates[1].id], layer)
                      ELSE << >>,
                      1, [beam EXCEPT !.candidates = HeapPop(@, "min")]))

\* HnswIndex::search_layer: the candidates found, nearest first, with ok FALSE
\* when a node is not in the table (NotFound).
SearchLayer(ix, query, entry, ef, layer) ==
    With(DistanceToNode(ix, query, entry), LAMBDA entry_dist :
       IF ~entry_dist.ok THEN [ok |-> FALSE, found |-> << >>]
       ELSE With(Beam(ix, query, ef, layer,
                      [ok |-> TRUE, visited |-> { entry },
                       candidates |-> << Candidate(entry, entry_dist.val) >>,
                       results |-> << Candidate(entry, entry_dist.val) >>]),
                 LAMBDA beam :
                    [ok |-> beam.ok,
                     found |-> IF beam.ok THEN SortByDistance(beam.results) ELSE << >>]))

RECURSIVE DescendLayers(_, _, _, _, _)
\* for lc in (low..=high).rev() { current = search_layer_single(..)? }
DescendLayers(ix, query, current, high, low) ==
    IF high < low THEN << current >>
    ELSE With(SearchLayerSingle(ix, query, current, high), LAMBDA next :
            IF next = << >> THEN << >>
            ELSE DescendLayers(ix, query, next[1], high - 1, low))

\* HnswIndex::search, lines 483-491, after it has read the entry point and
\* max_layer: err is "none" and found the (id, distance) pairs, or err is the
\* error.
SearchFrom(ix, query, k, entry, max_layer) ==
    With(DescendLayers(ix, query, entry, max_layer, 1), LAMBDA current :
       IF current = << >> THEN [err |-> "NotFound", found |-> << >>]
       ELSE With(SearchLayer(ix, query, current[1],
                             IF ix.config.ef_search > k THEN ix.config.ef_search ELSE k, 0),
                 LAMBDA layer0 :
                    IF ~layer0.ok THEN [err |-> "NotFound", found |-> << >>]
                    ELSE [err |-> "none", found |-> Take(layer0.found, k)]))

\* HnswIndex::search, run alone.
HnswSearch(ix, query, k) ==
    IF Len(query) # ix.config.dimensions THEN [err |-> "InvalidFormat", found |-> << >>]
    ELSE IF ix.entry_point = None THEN [err |-> "none", found |-> << >>]
    ELSE SearchFrom(ix, query, k, ix.entry_point[1], ix.max_layer)

\* HnswIndex::random_layer: the layers it can draw.  level_mult is 1 / ln(m):
\* infinite for m = 1, where every draw is cut to the top layer, and -0 for
\* m = 0, where every draw is layer 0.
RandomLayer(config) ==
    IF config.m = 1 THEN { MaxLayers - 1 }
    ELSE IF config.m = 0 THEN { 0 }
    ELSE Layers

\* VectorConfig::new, with the defaults of VectorConfig::default
VectorConfigNew(dimensions) ==
    [dimensions |-> dimensions, distance |-> "Cosine", m |-> 16,
     ef_construction |-> 200, ef_search |-> 50]

\* VectorConfig::with_distance
WithDistance(config, distance) == [config EXCEPT !.distance = distance]

\* VectorConfig::with_m
WithM(config, m) == [config EXCEPT !.m = m]

\* HnswNode::new
HnswNodeNew(id, vector, layer) ==
    [id |-> id, vector |-> vector, neighbors |-> [l \in 1..(layer + 1) |-> << >>],
     layer |-> layer]

\* HnswIndex::new
HnswIndexNew(config) ==
    [config |-> config, nodes |-> EmptyFcn, entry_point |-> None, max_layer |-> 0,
     next_id |-> 0]

\* HnswIndex::insert_with_metadata, lines 194-239, with layer what random_layer
\* drew: the call has returned (done), with an error or as the first node,
\* or it goes on with its locals (job) to link the node layer by layer.
InsertStart(ix, vector, layer) ==
    IF Len(vector) # ix.config.dimensions
    THEN [done |-> TRUE, res |-> Err("InvalidFormat"), index |-> ix, job |-> << >>]
    ELSE IF ix.entry_point = None
    THEN [done |-> TRUE, res |-> Ok(ix.next_id), job |-> << >>,
          index |-> [ix EXCEPT !.next_id = @ + 1,
                               !.nodes = FcnWith(@, ix.next_id,
                                                 HnswNodeNew(ix.next_id, vector, layer)),
                               !.entry_point = Some(ix.next_id),
                               !.max_layer = layer]]
    ELSE With(DescendLayers(ix, vector, ix.entry_point[1], ix.max_layer, layer + 1),
              LAMBDA current :
                 IF current = << >>
                 THEN [done |-> TRUE, res |-> Err("NotFound"), job |-> << >>,
                       index |-> [ix EXCEPT !.next_id = @ + 1]]
                 ELSE [done |-> FALSE, res |-> Ok(ix.next_id),
                       index |-> [ix EXCEPT !.next_id = @ + 1],
                       job |-> << [node |-> HnswNodeNew(ix.next_id, vector, layer),
                                   current |-> current[1],
                                   current_max_layer |-> ix.max_layer,
                                   lc |-> IF layer < ix.max_layer THEN layer
                                          ELSE ix.max_layer] >>])

\* map(|c| c.id)
Ids(seq) == [i \in 1..Len(seq) |-> seq[i].id]

\* HnswIndex::insert_with_metadata, lines 287-296: the members of a list that
\* are in the table, each with its distance to node_vector.
WithDistances(ix, node_vector, list) ==
    With(SelectSeq(list, LAMBDA nid : nid \in DOMAIN ix.nodes), LAMBDA known :
       [i \in 1..Len(known) |->
          Candidate(known[i], CalculateDistance(node_vector, ix.nodes[known[i]].vector,
                                                ix.config.distance))])

\* HnswIndex::insert_with_metadata without lines 284-307: the list that grew
\* beyond 2 m is left as it is.
UnprunedNeighbors(ix, neighbor, list) == list

\* HnswIndex::insert_with_metadata, lines 284-307: the list of a neighbour that
\* grew beyond 2 m is cut to the m nearest of its members found in the table.
PrunedNeighbors(ix, neighbor, list) ==
    Ids(Take(SortByDistance(WithDistances(ix, neighbor.vector, list)), ix.config.m))

\* HnswIndex::insert_with_metadata, lines 268-282: the neighbour's list at layer
\* lc takes the new id (and is cut when it is too long).
WithReverseConnection(ix, neighbor, id, lc) ==
    IF lc >= Len(neighbor.neighbors) THEN neighbor
    ELSE IF \E i \in 1..Len(neighbor.neighbors[lc + 1]) : neighbor.neighbors[lc + 1][i] = id
    THEN neighbor
    ELSE [neighbor EXCEPT !.neighbors[lc + 1] =
            IF Len(@) + 1 > ix.config.m * 2
            THEN PrunedNeighbors(ix, neighbor, Append(@, id))
            ELSE Append(@, id)]

\* HnswIndex::insert_with_metadata, lines 253-313: under the write lock the new
\* node takes the selected ids as its neighbours at layer lc and each of them
\* takes the new node; the next layer is entered at the first of them.
Connect(ix, job, selected) ==
    [ok |-> TRUE,
     index |-> [ix EXCEPT !.nodes =
                  [n \in DOMAIN ix.nodes |->
                     IF \E i \in 1..Len(selected) : selected[i] = n
                     THEN WithReverseConnection(ix, ix.nodes[n], job.node.id, job.lc)
                     ELSE ix.nodes[n]]],
     job |-> [job EXCEPT !.node.neighbors[job.lc + 1] = selected,
                         !.current = IF selected # << >> THEN selected[1] ELSE @,
                         !.lc = @ - 1]]

\* HnswIndex::insert_with_metadata, lines 242-313, one round of the loop: the
\* layer is searched and the m nearest found are connected.
LinkLayer(ix, job) ==
    With(SearchLayer(ix, job.node.vector, job.current, ix.config.ef_construction, job.lc),
         LAMBDA near :
            IF ~near.ok THEN [ok |-> FALSE, index |-> ix, job |-> job]
            ELSE Connect(ix, job, Ids(Take(near.found, ix.config.m))))

\* HnswIndex::insert_with_metadata, lines 315-324: the node enters the table
\* and becomes the entry point when its layer is above the layers there were.
FinishInsert(ix, job) ==
    IF job.node.layer > job.current_max_layer
    THEN [ix EXCEPT !.nodes = FcnWith(@, job.node.id, job.node),
                    !.max_layer = job.node.layer,
                    !.entry_point = Some(job.node.id)]
    ELSE [ix EXCEPT !.nodes = FcnWith(@, job.node.id, job.node)]

RECURSIVE LinkLayers(_, _)
\* The rounds of the loop from layer job.lc down to layer 0, then the end.
LinkLayers(ix, job) ==
    IF job.lc < 0 THEN [res |-> Ok(job.node.id), index |-> FinishInsert(ix, job)]
    ELSE With(LinkLayer(ix, job), LAMBDA linked :
            IF ~linked.ok THEN [res |-> Err("NotFound"), index |-> ix]
            ELSE LinkLayers(linked.index, linked.job))

\* HnswIndex::insert, run alone, with layer what random_layer drew.
HnswInsert(ix, vector, layer) ==
    With(InsertStart(ix, vector, layer), LAMBDA start :
       IF start.done THEN [res |-> start.res, index |-> start.index]
       ELSE LinkLayers(start.index, start.job[1]))

\* HnswIndex::delete without lines 513-520: the entry point stays what it was
\* when the node it names is deleted.
HnswDeleteKeepsEntry(ix, id) ==
    IF id \notin DOMAIN ix.nodes THEN { [res |-> Ok(FALSE), index |-> ix] }
    ELSE { [res |-> Ok(TRUE),
            index |-> [ix EXCEPT !.nodes =
                         [n \in (DOMAIN ix.nodes) \ { id } |->
                            [ix.nodes[n] EXCEPT !.neighbors =
                               [l \in 1..Len(@) |->
                                  SelectSeq(@[l], LAMBDA nid : nid # id)]]]]] }

\* HnswIndex::delete without lines 510-515: the node leaves the table and the
\* lists of the other nodes keep its id.
HnswDeleteLeavesEdges(ix, id) ==
    IF id \notin DOMAIN ix.nodes THEN { [res |-> Ok(FALSE), index |-> ix] }
    ELSE LET rest == [n \in (DOMAIN ix.nodes) \ { id } |-> ix.nodes[n]]
             pruned == [ix EXCEPT !.nodes = rest]
         IN IF ix.entry_point # Some(id) THEN { [res |-> Ok(TRUE), index |-> pruned] }
            ELSE IF DOMAIN rest = {}
            THEN { [res |-> Ok(TRUE), index |-> [pruned EXCEPT !.entry_point = None]] }
            ELSE { [res |-> Ok(TRUE), index |-> [pruned EXCEPT !.entry_point = Some(e)]] :
                     e \in DOMAIN rest }

\* HnswIndex::get
HnswGet(ix, id) ==
    IF id \notin DOMAIN ix.nodes THEN None
    ELSE Some([id |-> id, embedding |-> ix.nodes[id].vector, metadata |-> JsonNull])

\* HnswIndex::delete: the outcomes.  The id leaves every list of neighbours;
\* when the entry point is deleted, any node left (the first key of a HashMap)
\* takes its place.
HnswDelete(ix, id) ==
    IF id \notin DOMAIN ix.nodes THEN { [res |-> Ok(FALSE), index |-> ix] }
    ELSE LET rest == [n \in (DOMAIN ix.nodes) \ { id } |->
                        [ix.nodes[n] EXCEPT !.neighbors =
                            [l \in 1..Len(@) |-> SelectSeq(@[l], LAMBDA nid : nid # id)]]]
             pruned == [ix EXCEPT !.nodes = rest]
         IN IF ix.entry_point # Some(id) THEN { [res |-> Ok(TRUE), index |-> pruned] }
            ELSE IF DOMAIN rest = {}
            THEN { [res |-> Ok(TRUE), index |-> [pruned EXCEPT !.entry_point = None]] }
            ELSE { [res |-> Ok(TRUE), index |-> [pruned EXCEPT !.entry_point = Some(e)]] :
                     e \in DOMAIN rest }

\* HnswIndex::to_bytes: the JSON text of SerializedHnsw.
HnswToBytes(ix) ==
    [config |-> ix.config,
     nodes |-> [k \in { U64ToKey(id) : id \in DOMAIN ix.nodes } |->
                  LET node == ix.nodes[U64FromKey(k)]
                  IN [id |-> node.id,
                      vector |-> [i \in 1..Len(node.vector) |-> F32ToJson(node.vector[i])],
                      neighbors |-> node.neighbors,
                      layer |-> node.layer]],
     entry_point |-> ix.entry_point,
     max_layer |-> ix.max_layer,
     next_id |-> ix.next_id]

\* HnswIndex::from_bytes reads every node of the text.
HnswReadable(bytes) ==
    \A k \in DOMAIN bytes.nodes :
        \A i \in 1..Len(bytes.nodes[k].vector) : F32FromJson(bytes.nodes[k].vector[i]).ok

\* HnswIndex::from_bytes with the counter set to the number of nodes read.
HnswFromBytesCountsNodes(bytes) ==
    IF ~HnswReadable(bytes) THEN Err("StorageError")
    ELSE Ok([config |-> bytes.config,
             nodes |-> [id \in { U64FromKey(k) : k \in DOMAIN bytes.nodes } |->
                          LET node == bytes.nodes[U64ToKey(id)]
                          IN [id |-> node.id,
                              vector |-> [i \in 1..Len(node.vector) |->
                                            F32FromJson(node.vector[i]).val],
                              neighbors |-> node.neighbors,
                              layer |-> node.layer]],
             entry_point |-> bytes.entry_point,
             max_layer |-> bytes.max_layer,
             next_id |-> Cardinality(DOMAIN bytes.nodes)])

\* HnswIndex::from_bytes
HnswFromBytes(bytes) ==
    IF ~HnswReadable(bytes) THEN Err("StorageError")
    ELSE Ok([config |-> bytes.config,
             nodes |-> [id \in { U64FromKey(k) : k \in DOMAIN bytes.nodes } |->
                          LET node == bytes.nodes[U64ToKey(id)]
                          IN [id |-> node.id,
                              vector |-> [i \in 1..Len(node.vector) |->
                                            F32FromJson(node.vector[i]).val],
                              neighbors |-> node.neighbors,
                              layer |-> node.layer]],
             entry_point |-> bytes.entry_point,
             max_layer |-> bytes.max_layer,
             next_id |-> bytes.next_id])

\* VectorCollection::new
VectorCollectionNew(name, config) ==
    [name |-> name, config |-> config, index |-> HnswIndexNew(config), metadata |-> EmptyFcn]

\* VectorCollection::insert, with layer what random_layer drew.
CollectionInsert(coll, vector, metadata, layer) ==
    With(HnswInsert(coll.index, vector, layer), LAMBDA o :
       IF ~o.res.ok THEN [res |-> o.res, coll |-> [coll EXCEPT !.index = o.index]]
       ELSE [res |-> o.res,
             coll |-> [coll EXCEPT !.index = o.index,
                                   !.metadata = IF metadata = None THEN @
                                                ELSE FcnWith(@, o.res.val, metadata[1])]])

\* VectorCollection::delete: the outcomes.
CollectionDelete(coll, id) ==
    { [res |-> o.res,
       coll |-> [coll EXCEPT !.index = o.index, !.metadata = FcnWithout(@, id)]] :
      o \in HnswDelete(coll.index, id) }

\* VectorCollection::get
CollectionGet(coll, id) ==
    IF id \notin DOMAIN coll.index.nodes THEN None
    ELSE Some([id |-> id, embedding |-> coll.index.nodes[id].vector,
               metadata |-> IF id \in DOMAIN coll.metadata THEN coll.metadata[id]
                            ELSE JsonNull])

\* serde_json::Value::get with a key: the member of an object, if it has it.
ValueGet(value, field) ==
    IF value.t = "obj" /\ field \in DOMAIN value.m THEN Some(value.m[field]) ELSE None

\* The strings of the model in the order str::cmp gives them.
StrOrder == << "BLOB", "c1", "c2", "x", "zz" >>

\* The number a JSON number of the model stands for.
NumVal(s) == CHOOSE n \in 0..9 : ToString(n) = s

\* types::compare_values: -1 Less, 0 Equal, 1 Greater, 2 for None.
CompareValues(a, b) ==
    IF a.t = "num" /\ b.t = "num"
    THEN (IF NumVal(a.s) < NumVal(b.s) THEN -1 ELSE IF NumVal(a.s) > NumVal(b.s) THEN 1
          ELSE 0)
    ELSE IF a.t = "str" /\ b.t = "str"
    THEN (IF a.s = b.s THEN 0
          ELSE IF \E i, j \in 1..Len(StrOrder) : i < j /\ StrOrder[i] = a.s /\ StrOrder[j] = b.s
          THEN -1 ELSE 1)
    ELSE 2

\* FilterCondition::matches, for the conditions Eq, Ne, Gt, Gte, Lt, Lte, In
\* and NotIn; value is the member the metadata has for the field, if any.
ConditionMatches(condition, value) ==
    IF value = None THEN FALSE
    ELSE CASE condition.op = "Eq" -> condition.value = value[1]
           [] condition.op = "Ne" -> condition.value # value[1]
           [] condition.op = "Gt" -> CompareValues(value[1], condition.value) = 1
           [] condition.op = "Gte" -> CompareValues(value[1], condition.value) \in { 0, 1 }
           [] condition.op = "Lt" -> CompareValues(value[1], condition.value) = -1
           [] condition.op = "Lte" -> CompareValues(value[1], condition.value) \in { -1, 0 }
           [] condition.op = "In" ->
                \E i \in 1..Len(condition.value) : condition.value[i] = value[1]
           [] condition.op = "NotIn" ->
                ~\E i \in 1..Len(condition.value) : condition.value[i] = value[1]
           [] OTHER -> FALSE

\* MetadataFilter::matches: filter is the map from fields to conditions.
FilterMatches(filter, metadata) ==
    \A field \in DOMAIN filter : ConditionMatches(filter[field], ValueGet(metadata, field))

\* VectorCollection::build_search_results: each (id, distance) pair whose node
\* index.get finds, with the node's document, its metadata and its rank.
BuildSearchResults(coll, results) ==
    With(SelectSeq([i \in 1..Len(results) |-> [id |-> results[i].id,
                                                score |-> results[i].distance,
                                                rank |-> i - 1]],
                   LAMBDA r : CollectionGet(coll, r.id) # None),
         LAMBDA kept :
            [i \in 1..Len(kept) |->
               [document |-> CollectionGet(coll, kept[i].id)[1], score |-> kept[i].score,
                rank |-> kept[i].rank]])

\* VectorCollection::search
CollectionSearch(coll, query, k) ==
    With(HnswSearch(coll.index, query, k), LAMBDA results :
       IF results.err # "none" THEN [err |-> results.err, found |-> << >>]
       ELSE [err |-> "none", found |-> BuildSearchResults(coll, results.found)])

\* VectorCollection::search_filtered without its filter step.
SearchUnfiltered(coll, query, k, filter) ==
    With(HnswSearch(coll.index, query, k * 10), LAMBDA results :
       IF results.err # "none" THEN [err |-> results.err, found |-> << >>]
       ELSE [err |-> "none", found |-> BuildSearchResults(coll, Take(results.found, k))])

\* VectorCollection::search_filtered
SearchFiltered(coll, query, k, filter) ==
    With(HnswSearch(coll.index, query, k * 10), LAMBDA results :
       IF results.err # "none" THEN [err |-> results.err, found |-> << >>]
       ELSE [err |-> "none",
             found |-> BuildSearchResults(coll,
                          Take(SelectSeq(results.found,
                                         LAMBDA c : IF c.id \in DOMAIN coll.metadata
                                                    THEN FilterMatches(filter,
                                                                       coll.metadata[c.id])
                                                    ELSE TRUE),
                               k))])

\* Database::vector_search_filtered
VectorSearchFiltered(colls, name, query, k, filter) ==
    IF name \notin DOMAIN colls THEN [err |-> "CollectionNotFound", found |-> << >>]
    ELSE SearchFiltered(colls[name], query, k, filter)

\* VectorCollection::to_bytes: SerializedCollection as bincode writes it, the
\* metadata as the JSON text of a map whose keys are the ids.
CollectionToBytes(coll) ==
    [name |-> coll.name,
     config |-> coll.config,
     index_bytes |-> HnswToBytes(coll.index),
     metadata_json |-> [k \in { U64ToKey(id) : id \in DOMAIN coll.metadata } |->
                          coll.metadata[U64FromKey(k)]]]

\* VectorCollection::from_bytes
CollectionFromBytes(bytes) ==
    LET ix == HnswFromBytes(bytes.index_bytes)
    IN IF ~ix.ok THEN ix
       ELSE Ok([name |-> bytes.name,
                config |-> bytes.config,
                index |-> ix.val,
                metadata |-> [id \in { U64FromKey(k) : k \in DOMAIN bytes.metadata_json } |->
                                bytes.metadata_json[U64ToKey(id)]]])

\* Database::save_vector_collections: the side-file it leaves (None: no file).
\* The Vec of collections is kept as the set of its elements: its order is that
\* of a HashMap's values and load_vector_collections does not depend on it.
SaveVectorCollections(colls) ==
    IF DOMAIN colls = {} THEN None
    ELSE Some([version |-> 1,
               collections |-> { CollectionToBytes(colls[n]) : n \in DOMAIN colls }])

\* Database::load_vector_collections: a collection that cannot be read is left out.
LoadVectorCollections(side) ==
    IF side = None THEN EmptyFcn
    ELSE LET good == { b \in side[1].collections : CollectionFromBytes(b).ok }
         IN [n \in { b.name : b \in good } |->
               CollectionFromBytes(CHOOSE b \in good : b.name = n).val]

(* ------------------------- CompressedVectorStore ---------------------- *)

\* The vectors of the store have their components in halves (1 is 0.5).

\* CompressionConfig: sparsity_threshold in thousandths, max_density in
\* hundredths.  CompressionConfig::default is Delta, 0.001, 0.15, 8.
CompressionConfigOf(mode, max_density, anchor_frequency) ==
    [mode |-> mode, sparsity_threshold |-> 1, max_density |-> max_density,
     anchor_frequency |-> anchor_frequency]

\* CompressedVector::Full
Full(vector) ==
    [kind |-> "Full", vector |-> vector, base_id |-> 0, deltas |-> << >>, norm |-> 0]

\* CompressedVector::Delta; norm is kept as the sum of squares (in quarters) it
\* is the square root of.
Delta(base_id, deltas, norm) ==
    [kind |-> "Delta", vector |-> << >>, base_id |-> base_id, deltas |-> deltas,
     norm |-> norm]

\* CompressedVector::QuantizedDelta; scale is kept as the fraction num / den.
QuantizedDelta(base_id, deltas, scale, norm) ==
    [kind |-> "QuantizedDelta", vector |-> << >>, base_id |-> base_id, deltas |-> deltas,
     scale |-> scale, norm |-> norm]

\* CompressionConfig::with_threshold (in thousandths)
WithThreshold(config, threshold) == [config EXCEPT !.sparsity_threshold = threshold]

RECURSIVE SumSquares(_, _)
\* vector.iter().map(|x| x * x).sum()
SumSquares(vector, i) ==
    IF i > Len(vector) THEN 0 ELSE vector[i] * vector[i] + SumSquares(vector, i + 1)

\* DeltaCompressor::compress, lines 210-217: the (index, delta) pairs of the
\* components whose difference is above the threshold.
SparseDelta(config, vector, base) ==
    SelectSeq([i \in 1..Len(vector) |-> << i - 1, vector[i] - base[i] >>],
              LAMBDA d : Abs(d[2]) * 1000 > config.sparsity_threshold * 2)

RECURSIVE MaxAbs(_, _)
\* deltas.iter().map(|(_, d)| d.abs()).fold(0.0f32, f32::max)
MaxAbs(deltas, i) ==
    IF i > Len(deltas) THEN 0
    ELSE IF Abs(deltas[i][2]) > MaxAbs(deltas, i + 1) THEN Abs(deltas[i][2])
    ELSE MaxAbs(deltas, i + 1)

\* f32::round of num / den (den > 0): to the nearest integer, halves away
\* from zero.
Round(num, den) ==
    IF num >= 0 THEN (2 * num + den) \div (2 * den)
    ELSE 0 - ((2 * (0 - num) + den) \div (2 * den))

\* DeltaCompressor::compress, lines 233-262: the deltas as i8 multiples of
\* scale = max_abs / 127, without those that round to 0.
Quantized(deltas, norm) ==
    IF MaxAbs(deltas, 1) = 0
    THEN QuantizedDelta(0, << >>, [num |-> 2, den |-> 1], norm)
    ELSE QuantizedDelta(0,
            SelectSeq([i \in 1..Len(deltas) |->
                         << deltas[i][1], Round(deltas[i][2] * 127, MaxAbs(deltas, 1)) >>],
                      LAMBDA q : q[2] # 0),
            [num |-> MaxAbs(deltas, 1), den |-> 127], norm)

\* DeltaCompressor::compress without lines 220-224: a delta of any density is
\* kept.
CompressAnyDensity(config, vector, base) ==
    IF config.mode = "None" THEN Some(Full(vector))
    ELSE IF Len(vector) # Len(base) THEN Some(Full(vector))
    ELSE IF config.mode = "Delta"
    THEN Some(Delta(0, SparseDelta(config, vector, base), SumSquares(vector, 1)))
    ELSE Some(Quantized(SparseDelta(config, vector, base), SumSquares(vector, 1)))

\* DeltaCompressor::compress: None when the delta is too dense.
Compress(config, vector, base) ==
    IF config.mode = "None" THEN Some(Full(vector))
    ELSE IF Len(vector) # Len(base) THEN Some(Full(vector))
    ELSE IF Len(SparseDelta(config, vector, base)) * 100 > config.max_density * Len(vector)
    THEN None
    ELSE IF config.mode = "Delta"
    THEN Some(Delta(0, SparseDelta(config, vector, base), SumSquares(vector, 1)))
    ELSE Some(Quantized(SparseDelta(config, vector, base), SumSquares(vector, 1)))

\* CompressedVectorStore::new
CompressedVectorStoreNew(dimensions, config) ==
    [config |-> config, vectors |-> EmptyFcn, anchors |-> {}, total_count |-> 0,
     dimensions |-> dimensions]

RECURSIVE ApplyDeltas(_, _, _)
\* for (i, delta) in deltas { if i < base.len() { base[i] += delta } }
ApplyDeltas(base, deltas, n) ==
    IF n > Len(deltas) THEN base
    ELSE ApplyDeltas(IF deltas[n][1] < Len(base)
                     THEN [base EXCEPT ![deltas[n][1] + 1] = @ + deltas[n][2]]
                     ELSE base,
                     deltas, n + 1)

\* CompressedVectorStore::get_full, lines 396-413: the (index, delta) pairs
\* added to the base; (*quantized as f32) * scale for a QuantizedDelta.  The
\* product is a whole number of halves for the deltas that Quantized gives
\* when one component is kept (quantized is 127 or -127).
Dequantized(compressed) ==
    IF compressed.kind = "Delta" THEN compressed.deltas
    ELSE [i \in 1..Len(compressed.deltas) |->
            << compressed.deltas[i][1],
               (compressed.deltas[i][2] * compressed.scale.num) \div compressed.scale.den >>]

RECURSIVE GetFullWithin(_, _, _)
\* CompressedVectorStore::get_full with at most depth bases below id: the
\* vector ("some"), "none", or "overflow" when the chain of bases is longer
\* (it is a cycle: the call does not return).
GetFullWithin(store, id, depth) ==
    IF id \notin DOMAIN store.vectors THEN [is |-> "none", val |-> << >>]
    ELSE IF store.vectors[id].kind = "Full"
    THEN [is |-> "some", val |-> store.vectors[id].vector]
    ELSE IF depth = 0 THEN [is |-> "overflow", val |-> << >>]
    ELSE With(GetFullWithin(store, store.vectors[id].base_id, depth - 1), LAMBDA base :
            IF base.is # "some" THEN base
            ELSE [is |-> "some", val |-> ApplyDeltas(base.val, Dequantized(store.vectors[id]), 1)])

\* CompressedVectorStore::get_full
GetFull(store, id) == GetFullWithin(store, id, Cardinality(DOMAIN store.vectors))

\* CompressedVectorStore::insert, lines 361-365 and 385-388: the vector is
\* stored in full as an anchor.
StoredAsAnchor(store, id, vector) ==
    [store EXCEPT !.vectors = FcnWith(@, id, Full(vector)), !.anchors = @ \cup { id }]

\* CompressedVectorStore::insert, lines 367-383: the vector stored relative to
\* the neighbour, if there is one with a full vector and the delta is sparse.
StoredAsDelta(store, id, vector, neighbor_id) ==
    IF neighbor_id = None THEN None
    ELSE IF GetFull(store, neighbor_id[1]).is # "some" THEN None
    ELSE With(Compress(store.config, vector, GetFull(store, neighbor_id[1]).val),
              LAMBDA compressed :
                 IF compressed = None THEN None
                 ELSE Some([store EXCEPT !.vectors =
                              FcnWith(@, id,
                                      IF compressed[1].kind = "Full" THEN compressed[1]
                                      ELSE [compressed[1] EXCEPT
                                              !.base_id = neighbor_id[1]])]))

\* CompressedVectorStore::insert with the insert counted before the length of
\* the vector is looked at.
StoreInsertCountsFirst(store, id, vector, neighbor_id) ==
    With([store EXCEPT !.total_count = @ + 1], LAMBDA counted :
        IF Len(vector) # store.dimensions THEN [res |-> FALSE, store |-> counted]
        ELSE IF \/ counted.config.mode = "None"
                \/ counted.anchors = {}
                \/ counted.total_count % counted.config.anchor_frequency = 0
        THEN [res |-> TRUE, store |-> StoredAsAnchor(counted, id, vector)]
        ELSE With(StoredAsDelta(counted, id, vector, neighbor_id), LAMBDA delta :
                IF delta # None THEN [res |-> TRUE, store |-> delta[1]]
                ELSE [res |-> TRUE, store |-> StoredAsAnchor(counted, id, vector)]))

\* CompressedVectorStore::insert: what it returns and the store it leaves.
StoreInsert(store, id, vector, neighbor_id) ==
    IF Len(vector) # store.dimensions THEN [res |-> FALSE, store |-> store]
    ELSE With([store EXCEPT !.total_count = @ + 1], LAMBDA counted :
            IF \/ counted.config.mode = "None"
               \/ counted.anchors = {}
               \/ counted.total_count % counted.config.anchor_frequency = 0
            THEN [res |-> TRUE, store |-> StoredAsAnchor(counted, id, vector)]
            ELSE With(StoredAsDelta(counted, id, vector, neighbor_id), LAMBDA delta :
                    IF delta # None THEN [res |-> TRUE, store |-> delta[1]]
                    ELSE [res |-> TRUE, store |-> StoredAsAnchor(counted, id, vector)]))

\* CompressedVectorStore::remove
StoreRemove(store, id) ==
    IF /\ id \in store.anchors
       /\ \E other \in DOMAIN store.vectors :
             store.vectors[other].kind # "Full" /\ store.vectors[other].base_id = id
    THEN [res |-> FALSE, store |-> store]
    ELSE [res |-> id \in DOMAIN store.vectors,
          store |-> [store EXCEPT !.anchors = @ \ { id },
                                  !.vectors = FcnWithout(@, id)]]

(* ------------------------- the calls as lock steps -------------------- *)

\* A call is the sequence of its lock steps: a guard taken ("acq"), a guard
\* dropped ("rel"), and a step under the guards held that reads or writes what
\* the rest of the call depends on ("br").  The locks: Executor.pager,
\* BufferPool.cache, Index.indexes, Executor.collections,
\* Database.vector_collections, and of the collection "va" HnswIndex.nodes,
\* entry_point and max_layer and VectorCollection.metadata.
Acq(lock, mode) == [k |-> "acq", lock |-> lock, mode |-> mode, tag |-> ""]
Rel(lock) == [k |-> "rel", lock |-> lock, mode |-> "", tag |-> ""]
Br(tag) == [k |-> "br", lock |-> "", mode |-> "", tag |-> tag]

\* A guard taken and dropped with no other lock step in between.
Lock(lock, mode) == << Acq(lock, mode), Rel(lock) >>

LockNames ==
    { "pager", "cache", "index", "collections", "vector_collections", "nodes",
      "entry_point", "max_layer", "metadata" }
\* The locks of a vector collection.
CollectionLocks == { "nodes", "entry_point", "max_layer", "metadata" }

\* Executor::insert: the pager for the page, the index, the collection's
\* count, the buffer pool.  how: where the call ends.
ExecInsertSteps(how) ==
    IF how = "invalid" THEN << >>
    ELSE IF how = "storage" THEN Lock("pager", "W")
    ELSE IF how = "duplicate" THEN Lock("pager", "W") \o Lock("index", "W")
    ELSE Lock("pager", "W") \o Lock("index", "W") \o Lock("collections", "W")
             \o Lock("cache", "W")

\* Executor::find_by_id: the index, the buffer pool, and on a miss the pager
\* and the buffer pool again.
ExecFindByIdSteps(how) ==
    IF how = "missing" THEN Lock("index", "R")
    ELSE IF how = "hit" THEN Lock("index", "R") \o Lock("cache", "R")
    ELSE IF how = "storage" THEN Lock("index", "R") \o Lock("cache", "R") \o Lock("pager", "W")
    ELSE Lock("index", "R") \o Lock("cache", "R") \o Lock("pager", "W")
             \o Lock("cache", "W")

\* Executor::update
ExecUpdateSteps(how) ==
    IF how = "invalid" THEN << >>
    ELSE IF how = "missing" THEN Lock("index", "R")
    ELSE IF how = "storage" THEN Lock("index", "R") \o Lock("pager", "W")
    ELSE Lock("index", "R") \o Lock("pager", "W") \o Lock("cache", "W")

\* Executor::delete: find_by_id, then the index, the pager, the buffer pool
\* and the collection's count.
ExecDeleteSteps(how) ==
    IF how \in { "missing", "storage" } THEN ExecFindByIdSteps(how)
    ELSE ExecFindByIdSteps(how) \o Lock("index", "W") \o Lock("pager", "W")
             \o Lock("cache", "W") \o Lock("collections", "W")

\* Executor::find_all of a collection of one document
ExecFindAllSteps(how) == Lock("index", "R") \o ExecFindByIdSteps(how)

\* HnswIndex::to_bytes and the metadata of VectorCollection::to_bytes: the
\* guards of the three fields of SerializedHnsw live to the end of the
\* statement.
ToBytesSteps ==
    << Acq("nodes", "R"), Acq("entry_point", "R"), Acq("max_layer", "R"),
       Rel("max_layer"), Rel("entry_point"), Rel("nodes") >> \o Lock("metadata", "R")

\* Database::save_vector_collections
SaveSteps == << Acq("vector_collections", "R"), Br("save") >>

\* Database::sync
SyncSteps == Lock("pager", "W") \o SaveSteps

\* Database::create_vector_collection
CreateSteps == << Acq("vector_collections", "W"), Br("create") >>

\* Database::drop_vector_collection
DropSteps == << Acq("vector_collections", "W"), Br("drop"), Rel("vector_collections") >> \o SaveSteps

\* Database::insert_vector
InsertVectorSteps == << Acq("vector_collections", "R"), Br("insert") >>

\* Database::delete_vector
DeleteVectorSteps == << Acq("vector_collections", "R"), Br("delete") >>

\* Database::vector_search
SearchSteps == << Acq("vector_collections", "R"), Br("search") >>

\* VectorCollection::insert after index.insert returned an id, and the rest of
\* insert_vector.
AfterIndexInsert(loc) ==
    (IF loc.meta THEN Lock("metadata", "W") ELSE << >>)
        \o << Rel("vector_collections") >> \o SaveSteps

\* insert_with_metadata, lines 229-325, for a node of one layer: the entry
\* point, max_layer, the searches of the layers, the connections of the layer,
\* the node, and the new top.
GeneralSteps == << Acq("entry_point", "R"), Br("unwrap") >>

LinkSteps(loc) ==
    << Rel("entry_point") >> \o Lock("max_layer", "R") \o Lock("nodes", "R")
        \o Lock("nodes", "W") \o << Acq("nodes", "W"), Br("add"), Rel("nodes") >>
        \o (IF loc.top
            THEN Lock("max_layer", "W")
                     \o << Acq("entry_point", "W"), Br("top"), Rel("entry_point") >>
            ELSE << >>)
        \o AfterIndexInsert(loc)

\* VectorCollection::build_search_results of one result
BuildSteps == << Acq("metadata", "R") >> \o Lock("nodes", "R") \o << Rel("metadata") >>

\* The collection "va" as the lock steps see it.
SharedOf(exists, nodes, entry_point, next_id) ==
    [exists |-> exists, nodes |-> nodes, entry_point |-> entry_point, next_id |-> next_id]

\* A "br" step of a call with the locals loc: the outcomes, each with the
\* collection it leaves, the locals, and the steps that follow.
Branch(tag, sh, loc) ==
    CASE tag = "save" ->
           \* lib.rs 102-118
           { [shared |-> sh, loc |-> loc,
              prog |-> IF sh.exists THEN ToBytesSteps \o << Rel("vector_collections") >>
                       ELSE << Rel("vector_collections") >>] }
      [] tag = "create" ->
           \* lib.rs 289-309
           { IF sh.exists
             THEN [shared |-> sh, loc |-> loc, prog |-> << Rel("vector_collections") >>]
             ELSE [shared |-> SharedOf(TRUE, {}, None, 0), loc |-> loc,
                   prog |-> << Rel("vector_collections") >> \o SaveSteps] }
      [] tag = "drop" ->
           \* lib.rs 465
           { [shared |-> [sh EXCEPT !.exists = FALSE], loc |-> loc, prog |-> loc.prog] }
      [] tag = "insert" ->
           \* lib.rs 327-330, hnsw.rs 194-213
           { IF sh.exists /\ loc.fits
             THEN [shared |-> [sh EXCEPT !.next_id = @ + 1],
                   loc |-> [loc EXCEPT !.id = sh.next_id],
                   prog |-> << Acq("entry_point", "R"), Br("first") >>]
             ELSE [shared |-> sh, loc |-> loc, prog |-> << Rel("vector_collections") >>] }
      [] tag = "first" ->
           \* hnsw.rs 214-218 and 227
           { [shared |-> sh, loc |-> loc,
              prog |-> IF sh.entry_point = None
                       THEN << Rel("entry_point"), Acq("entry_point", "W"),
                               Acq("nodes", "W"), Acq("max_layer", "W"), Br("first_locked") >>
                       ELSE << Rel("entry_point") >> \o GeneralSteps] }
      [] tag = "first_locked" ->
           \* hnsw.rs 220-226
           { IF sh.entry_point = None
             THEN [shared |-> [sh EXCEPT !.nodes = @ \cup { loc.id },
                                         !.entry_point = Some(loc.id)],
                   loc |-> loc,
                   prog |-> << Rel("max_layer"), Rel("nodes"), Rel("entry_point") >>
                                \o AfterIndexInsert(loc)]
             ELSE [shared |-> sh, loc |-> loc,
                   prog |-> << Rel("max_layer"), Rel("nodes"), Rel("entry_point") >>
                                \o GeneralSteps] }
      [] tag = "unwrap" ->
           \* hnsw.rs 230: unwrap of None panics, and the guards are dropped
           { [shared |-> sh, loc |-> loc,
              prog |-> IF sh.entry_point = None
                       THEN << Rel("entry_point"), Rel("vector_collections") >>
                       ELSE LinkSteps(loc)] }
      [] tag = "add" ->
           \* hnsw.rs 316
           { [shared |-> [sh EXCEPT !.nodes = @ \cup { loc.id }], loc |-> loc,
              prog |-> loc.prog] }
      [] tag = "top" ->
           \* hnsw.rs 321
           { [shared |-> [sh EXCEPT !.entry_point = Some(loc.id)], loc |-> loc,
              prog |-> loc.prog] }
      [] tag = "delete" ->
           \* lib.rs 441-445, search.rs 144, hnsw.rs 507
           { [shared |-> sh, loc |-> loc,
              prog |-> IF sh.exists
                       THEN Lock("metadata", "W") \o << Acq("nodes", "W"), Br("remove") >>
                       ELSE << Rel("vector_collections") >>] }
      [] tag = "remove" ->
           \* hnsw.rs 509-518 and 524-526
           { IF loc.id \in sh.nodes
             THEN [shared |-> [sh EXCEPT !.nodes = @ \ { loc.id }], loc |-> loc,
                   prog |-> << Acq("entry_point", "R"), Br("was_entry") >>]
             ELSE [shared |-> sh, loc |-> loc,
                   prog |-> << Rel("nodes"), Rel("vector_collections") >> \o SaveSteps] }
      [] tag = "was_entry" ->
           \* hnsw.rs 518-519
           { [shared |-> sh, loc |-> loc,
              prog |-> IF sh.entry_point = Some(loc.id)
                       THEN << Rel("entry_point"), Acq("entry_point", "W"), Br("replace"),
                               Rel("entry_point"), Rel("nodes"), Rel("vector_collections") >>
                                \o SaveSteps
                       ELSE << Rel("entry_point"), Rel("nodes"), Rel("vector_collections") >>
                                \o SaveSteps] }
      [] tag = "replace" ->
           \* hnsw.rs 520: any key of the table
           { [shared |-> [sh EXCEPT !.entry_point = entry], loc |-> loc, prog |-> loc.prog] :
               entry \in IF sh.nodes = {} THEN { None } ELSE { Some(n) : n \in sh.nodes } }
      [] tag = "search" ->
           \* lib.rs 382-386, hnsw.rs 467-475
           { [shared |-> sh, loc |-> loc,
              prog |-> IF sh.exists /\ loc.fits
                       THEN << Acq("entry_point", "R"), Br("search_entry") >>
                       ELSE << Rel("vector_collections") >>] }
      [] tag = "search_entry" ->
           \* hnsw.rs 475-492, search.rs 94 and 159-173
           { [shared |-> sh, loc |-> loc,
              prog |-> IF sh.entry_point = None
                       THEN << Rel("entry_point") >> \o Lock("metadata", "R")
                                \o << Rel("vector_collections") >>
                       ELSE << Rel("entry_point") >> \o Lock("max_layer", "R")
                                \o Lock("nodes", "R") \o BuildSteps
                                \o << Rel("vector_collections") >>] }

\* The locals of a call as lock steps.
LockCallOf(op, prog, id, fits, meta, top) ==
    [op |-> op, prog |-> prog, id |-> id, fits |-> fits, meta |-> meta, top |-> top]

\* No call.
NoLockCall == LockCallOf("none", << >>, 0, FALSE, FALSE, FALSE)

\* A guard of thread t on a lock.
Guard(t, mode) == [thread |-> t, mode |-> mode]

\* RwLock: a read guard is granted when no write guard is out, a write guard
\* when no guard is out.
Grantable(guards, mode) ==
    IF mode = "R" THEN \A g \in guards : g.mode = "R" ELSE guards = {}

(* ------------------------------- the handle --------------------------- *)

VARIABLES
    file,          \* the pages of the database file, in order (its header's page count is their number)
    page_count,    \* Pager.page_count
    cache,         \* BufferPool.cache: page number -> Page
    index,         \* Index.indexes: collection -> (doc id -> IndexEntry)
    collections,   \* Executor.collections: collection -> document_count
    uuid_next,     \* history: how many fresh ids were drawn
    docs,          \* history: <<collection, id>> -> the last successful write of a document not deleted since
    net,           \* history: collection -> successful inserts minus successful deletes (plus the count at open)
    only_inserts,  \* history: no update and no delete was called since create
    flipped,       \* history: the pages whose payload was changed in the file behind the handle
    pc,            \* thread -> where its call stands ("idle" between calls)
    cur,           \* thread -> the locals of its call
    calls,         \* history: the calls of the threads, each with the times it was invoked and returned
    clock,         \* history: the number of invocations and returns so far
    vector_collections,  \* Database.vector_collections: name -> VectorCollection
    vector_file,   \* the vector side-file (None: there is no such file)
    issued,        \* history: name -> the ids insert_vector returned since the collection was created, each with whether the handle now open returned it
    pool,          \* a BufferPool on its own: its capacity and its cache
    hnsw,          \* an HnswIndex on its own
    ins,           \* the locals of the insert under way on hnsw (<< >>: there is none)
    srch,          \* the locals of the search under way on hnsw (<< >>: there is none)
    store,         \* a CompressedVectorStore on its own
    locks,         \* lock -> the guards on it, each with its thread and its mode
    run,           \* thread -> the call it runs as lock steps: what is left of it, and its locals
    shared         \* what the lock steps of the vector calls branch on: the collection "va"

docVars == << file, page_count, cache, index, collections >>
histVars == << uuid_next, docs, net, only_inserts >>
\* What no call on the document store touches.
concVars == << pc, cur, calls, clock >>
vecVars == << vector_collections, vector_file, issued >>
\* The objects used on their own, outside a Database.
hnswVars == << hnsw, ins, srch >>
\* The calls seen as their lock acquisitions.
lockVars == << locks, run, shared >>
unitVars == << pool, hnswVars, store, lockVars >>
sideVars == << flipped, unitVars >>
otherVars == << sideVars, concVars, vecVars >>

Ex == ExecutorOf(file, page_count, cache, index, collections)

SetExecutor(ex) ==
    /\ file' = ex.file
    /\ page_count' = ex.page_count
    /\ cache' = ex.cache
    /\ index' = ex.index
    /\ collections' = ex.collections

\* A successful write as the history keeps it: the call, the body it was given,
\* and whether it was made through the handle now open.
Written(op, body) == [op |-> op, body |-> body, here |-> TRUE]

NetOf(c) == IF c \in DOMAIN net THEN net[c] ELSE 0

\* Bodies the calls are tried with.
BodyV1 == Obj([v |-> Num("1")])
BodyV2 == Obj([v |-> Num("2")])
BodyX1 == Obj([_id |-> Str("x"), v |-> Num("1")])
BodyX2 == Obj([_id |-> Str("x"), v |-> Num("2")])
BodyBadId == Obj([_id |-> Num("7")])
BodyColl == Obj([_collection |-> Str("zz")])
BodyBlob == Obj([pad |-> Str(BLOB)])
BodyIdOnly == Obj([_id |-> Str("x")])
NotAnObject == Num("7")

InsertBodies == { BodyV1, BodyX1, BodyX2, BodyBadId, BodyColl, BodyBlob, NotAnObject }

\* The insert calls tried: every body into c1, the explicit id also into c2.
InsertCalls == { << "c1", b >> : b \in InsertBodies } \cup { << "c2", BodyX1 >> }

UpdateBodies == { BodyV2, BodyIdOnly, BodyBlob, NotAnObject }

\* Ids a caller names for a collection: those it holds, and the explicit one.
CallIds(c) == IndexListIds(index, c) \cup {"x"}

(* ------------------------------- threads ------------------------------ *)

\* The threads that share the handle.
Threads == { 1, 2 }

\* The locals of a thread between calls.
IdleCall ==
    [k |-> 0, op |-> "none", coll |-> "", id |-> "", body |-> Num("0"),
     entry |-> << >>, page |-> << >>, found |-> Err("none")]

InitThreads ==
    /\ pc = [t \in Threads |-> "idle"]
    /\ cur = [t \in Threads |-> IdleCall]
    /\ calls = << >>
    /\ clock = 0

\* Database::create: an empty file, an empty executor.
InitDoc ==
    /\ file = << >>
    /\ page_count = 0
    /\ cache = EmptyFcn
    /\ index = EmptyFcn
    /\ collections = EmptyFcn
    /\ uuid_next = 0
    /\ docs = EmptyFcn
    /\ net = EmptyFcn
    /\ only_inserts = TRUE
    /\ flipped = {}

\* Database::insert
Insert(c, body) ==
    /\ ReachesAllocate(body) => page_count < MaxPages
    /\ LET fresh == Uuid(uuid_next + 1)
       IN \E o \in ExecInsert(Ex, c, body, fresh) :
            LET id == InsertDocument(c, body, fresh).id
            IN /\ SetExecutor(o.ex)
               /\ uuid_next' = IF DrawsFreshId(body) THEN uuid_next + 1 ELSE uuid_next
               /\ docs' = IF o.res.ok THEN FcnWith(docs, << c, id >>, Written("insert", body))
                          ELSE docs
               /\ net' = IF o.res.ok THEN FcnWith(net, c, NetOf(c) + 1) ELSE net
               /\ UNCHANGED << only_inserts, otherVars >>

\* Database::find_by_id (what it returns is FindResult)
FindById(c, id) ==
    \E o \in ExecFindById(Ex, c, id) :
        /\ SetExecutor(o.ex)
        /\ UNCHANGED << histVars, otherVars >>

\* Database::update
Update(c, id, body) ==
    LET o == ExecUpdate(Ex, c, id, body)
    IN /\ SetExecutor(o.ex)
       /\ docs' = IF o.res.ok THEN FcnWith(docs, << c, id >>, Written("update", body))
                  ELSE docs
       /\ only_inserts' = FALSE
       /\ UNCHANGED << uuid_next, net, otherVars >>

\* Database::delete
Delete(c, id) ==
    \E o \in ExecDelete(Ex, c, id) :
        /\ SetExecutor(o.ex)
        /\ docs' = IF o.res.ok THEN FcnWithout(docs, << c, id >>) ELSE docs
        /\ net' = IF o.res.ok THEN FcnWith(net, c, NetOf(c) - 1) ELSE net
        /\ only_inserts' = FALSE
        /\ UNCHANGED << uuid_next, otherVars >>

\* Database::find_all (what it returns is in ExecFindAll)
FindAll(c, limit, skip) ==
    \E o \in ExecFindAll(Ex, c, limit, skip) :
        /\ SetExecutor(o.ex)
        /\ UNCHANGED << histVars, otherVars >>

\* Database::count: reads the index, changes nothing (what it returns is ExecCount).
Count(c) ==
    /\ ExecCount(Ex, c) >= 0
    /\ UNCHANGED << docVars, histVars, otherVars >>

\* Database::list_collections: reads the index, changes nothing.
ListCollections ==
    /\ ExecListCollections(Ex) \subseteq (Collections \X (0..MaxPages))
    /\ UNCHANGED << docVars, histVars, otherVars >>

\* Database::sync: Pager::sync forces the file, which every write_page already
\* wrote and flushed, to disk; then the vector side-file is written again.
Sync ==
    /\ vector_file' = SaveVectorCollections(vector_collections)
    /\ UNCHANGED << docVars, histVars, sideVars, concVars, vector_collections, issued >>

\* The handle is dropped and Database::open is called on the same path.
Reopen ==
    LET opened == OpenExecutor(file)
    IN /\ SetExecutor(opened)
       /\ docs' = [k \in DOMAIN docs |-> [docs[k] EXCEPT !.here = FALSE]]
       /\ net' = [c \in DOMAIN opened.index |-> IndexCount(opened.index, c)]
       /\ vector_collections' = LoadVectorCollections(vector_file)
       /\ issued' = [n \in DOMAIN issued \cap DOMAIN vector_collections' |->
                        { [id |-> i.id, here |-> FALSE] : i \in issued[n] }]
       /\ UNCHANGED << uuid_next, only_inserts, sideVars, concVars, vector_file >>

\* Database::create_vector_collection
CreateVectorCollection(name, config) ==
    /\ IF name \in DOMAIN vector_collections
       THEN UNCHANGED vecVars
       ELSE LET colls == FcnWith(vector_collections, name, VectorCollectionNew(name, config))
            IN /\ vector_collections' = colls
               /\ vector_file' = SaveVectorCollections(colls)
               /\ issued' = FcnWith(issued, name, {})
    /\ UNCHANGED << docVars, histVars, sideVars, concVars >>

\* Database::insert_vector, with layer what random_layer drew.  An insert that
\* fails returns before the side-file is written.
InsertVector(name, vector, metadata, layer) ==
    /\ IF name \notin DOMAIN vector_collections
       THEN UNCHANGED vecVars
       ELSE /\ vector_collections[name].index.next_id < MaxVectors
            /\ layer \in RandomLayer(vector_collections[name].index.config)
            /\ vector_collections' =
                  FcnWith(vector_collections, name,
                          CollectionInsert(vector_collections[name], vector, metadata,
                                           layer).coll)
            /\ vector_file' =
                  IF CollectionInsert(vector_collections[name], vector, metadata,
                                      layer).res.ok
                  THEN SaveVectorCollections(vector_collections')
                  ELSE vector_file
            /\ issued' =
                  IF CollectionInsert(vector_collections[name], vector, metadata,
                                      layer).res.ok
                  THEN [issued EXCEPT ![name] =
                          @ \cup { [id |-> CollectionInsert(vector_collections[name], vector,
                                                            metadata, layer).res.val,
                                    here |-> TRUE] }]
                  ELSE issued
    /\ UNCHANGED << docVars, histVars, sideVars, concVars >>

\* Database::delete_vector
DeleteVector(name, id) ==
    /\ IF name \notin DOMAIN vector_collections
       THEN UNCHANGED vecVars
       ELSE \E o \in CollectionDelete(vector_collections[name], id) :
              LET colls == FcnWith(vector_collections, name, o.coll)
              IN /\ vector_collections' = colls
                 /\ vector_file' = SaveVectorCollections(colls)
                 /\ issued' = issued
    /\ UNCHANGED << docVars, histVars, sideVars, concVars >>

\* Database::drop_vector_collection
DropVectorCollection(name) ==
    /\ LET colls == FcnWithout(vector_collections, name)
       IN /\ vector_collections' = colls
          /\ vector_file' = SaveVectorCollections(colls)
          /\ issued' = FcnWithout(issued, name)
    /\ UNCHANGED << docVars, histVars, sideVars, concVars >>

vars ==
    << file, page_count, cache, index, collections, uuid_next, docs, net, only_inserts,
       flipped, pc, cur, calls, clock, vector_collections, vector_file, issued, pool,
       hnsw, ins, srch, store, locks, run, shared >>

\* Database::create: no vector collection; the path has no side-file.
InitVectors ==
    /\ vector_collections = EmptyFcn
    /\ vector_file = None
    /\ issued = EmptyFcn

InitDatabase == InitDoc /\ InitThreads /\ InitVectors

\* No guard is out, no thread is in a call, there is no vector collection.
InitLocks ==
    /\ locks = [l \in LockNames |-> {}]
    /\ run = [t \in Threads |-> NoLockCall]
    /\ shared = SharedOf(FALSE, {}, None, 0)

\* BufferPool::new with the capacity of the configuration.
InitUnits ==
    /\ pool = BufferPoolNew(CacheSize)
    /\ hnsw = HnswIndexNew(WithDistance(VectorConfigNew(1), "Euclidean"))
    /\ ins = << >>
    /\ srch = << >>
    /\ store = CompressedVectorStoreNew(2, CompressionConfigOf("Delta", 15, 8))
    /\ InitLocks

Init == InitDatabase /\ InitUnits

Next ==
    \/ \E call \in InsertCalls : Insert(call[1], call[2])
    \/ \E c \in Collections : \E id \in CallIds(c) : FindById(c, id)
    \/ \E c \in Collections : \E id \in CallIds(c), body \in UpdateBodies : Update(c, id, body)
    \/ \E c \in Collections : \E id \in CallIds(c) : Delete(c, id)
    \/ \E c \in Collections, window \in { << None, None >>, << Some(1), Some(1) >> } :
          FindAll(c, window[1], window[2])
    \/ \E c \in Collections : Count(c)
    \/ ListCollections
    \/ Sync
    \/ Reopen

Spec == Init /\ [][Next]_vars

(* --------------------------- the vector subsystem --------------------- *)

VectorNames == { "va", "vb" }
VectorConfigs == { VectorConfigNew(1), WithDistance(VectorConfigNew(1), "Euclidean") }
\* VectorConfig::new(1) alone
DefaultConfigs == { VectorConfigNew(1) }
\* Embeddings the calls are tried with: of the dimension, not finite, too long.
Embeddings == { << "1.5" >>, << "NaN" >>, << "1.5", "2.5" >> }
Metadatas == { None, Some(BodyV1) }

\* The filters the searches are tried with: none, on the member v, on a member
\* no metadata has.
Filters ==
    { EmptyFcn,
      [v |-> [op |-> "Eq", value |-> Num("1")]],
      [v |-> [op |-> "Gt", value |-> Num("1")]],
      [v |-> [op |-> "NotIn", value |-> << Num("2") >>]],
      [w |-> [op |-> "Ne", value |-> Num("1")]] }

\* Database::vector_search_filtered: reads the collections, changes nothing.
VectorSearchFilteredCall(name, query, k, filter) ==
    /\ Len(VectorSearchFiltered(vector_collections, name, query, k, filter).found) <= k
    /\ UNCHANGED vars

NextVec ==
    \/ \E name \in VectorNames, config \in DefaultConfigs :
          CreateVectorCollection(name, config)
    \/ \E name \in VectorNames, vector \in Embeddings, metadata \in Metadatas,
          layer \in Layers :
          InsertVector(name, vector, metadata, layer)
    \/ \E name \in VectorNames, id \in 0..(MaxVectors - 1) : DeleteVector(name, id)
    \/ \E name \in VectorNames : DropVectorCollection(name)
    \/ Sync
    \/ Reopen

SpecVec == Init /\ [][NextVec]_vars

\* One vector collection, with more metadata and with searches.
NextColl ==
    \/ \E config \in VectorConfigs : CreateVectorCollection("va", config)
    \/ \E vector \in Embeddings, metadata \in Metadatas \cup { Some(BodyV2) },
          layer \in Layers :
          InsertVector("va", vector, metadata, layer)
    \/ \E id \in 0..(MaxVectors - 1) : DeleteVector("va", id)
    \/ DropVectorCollection("va")
    \/ \E query \in Embeddings, k \in 0..MaxVectors, filter \in Filters :
          VectorSearchFilteredCall("va", query, k, filter)
    \/ Sync
    \/ Reopen

SpecColl == Init /\ [][NextColl]_vars

(* ------------------- the file changed behind the handle --------------- *)

\* The payload cells and the bits an outside writer inverts: in the page's
\* length prefix, in the text and in the padding.
FlipCells == { 1, 5, 13, DataSize }
FlipBits == { 0, 7 }

\* One bit of the payload of Data page page_num is inverted in the file; the
\* stored checksum and the handle are left as they are.
FlipBit(page_num, cell, bit) ==
    /\ flipped = {}
    /\ page_num < page_count
    /\ file[page_num + 1].page_type = PageTypeData
    /\ file' = [file EXCEPT ![page_num + 1].data[cell] = FlipBitOfCell(@, bit)]
    /\ flipped' = flipped \cup { page_num }
    /\ UNCHANGED << page_count, cache, index, collections, histVars, concVars, vecVars, unitVars >>

NextFault ==
    \/ \E body \in { BodyV1, BodyX1 } : Insert("c1", body)
    \/ \E id \in CallIds("c1") : FindById("c1", id)
    \/ FindAll("c1", None, None)
    \/ Reopen
    \/ \E page_num \in 0..(MaxPages - 1), cell \in FlipCells, bit \in FlipBits :
          FlipBit(page_num, cell, bit)

SpecFault == Init /\ [][NextFault]_vars

(* ------------------ calls of several threads on one handle ------------ *)

\* The calls of all threads together (a bound).
MaxCalls == 3

\* The calls the threads make, all on document x of collection c1.
ThreadCalls ==
    { [op |-> "insert", coll |-> "c1", id |-> "x", body |-> BodyX1],
      [op |-> "find_by_id", coll |-> "c1", id |-> "x", body |-> Num("0")],
      [op |-> "update", coll |-> "c1", id |-> "x", body |-> BodyV2],
      [op |-> "delete", coll |-> "c1", id |-> "x", body |-> Num("0")] }

\* A thread enters a call: the call is recorded with the time of its invocation.
Invoke(t, call) ==
    /\ pc[t] = "idle"
    /\ Len(calls) < MaxCalls
    /\ call.op = "insert" => Len(calls) < MaxPages
    /\ calls' = Append(calls, [t |-> t, op |-> call.op, coll |-> call.coll, id |-> call.id,
                               body |-> call.body, inv |-> clock + 1, ret |-> 0,
                               res |-> Err("pending")])
    /\ clock' = clock + 1
    /\ cur' = [cur EXCEPT ![t] = [IdleCall EXCEPT !.k = Len(calls) + 1, !.op = call.op,
                                  !.coll = call.coll, !.id = call.id, !.body = call.body]]
    /\ pc' = [pc EXCEPT ![t] = IF call.op = "insert" THEN "insert_write"
                               ELSE IF call.op = "update" THEN "update_find"
                               ELSE "find_index"]
    /\ UNCHANGED << docVars, histVars, sideVars, vecVars >>

\* The call of thread t returns res: the history gets the result and the time.
Return(t, res) ==
    /\ calls' = [calls EXCEPT ![cur[t].k].ret = clock + 1, ![cur[t].k].res = res]
    /\ clock' = clock + 1
    /\ cur' = [cur EXCEPT ![t] = IdleCall]
    /\ pc' = [pc EXCEPT ![t] = "idle"]

\* The call of thread t goes on at label with its locals changed to locals.
Goto(t, label, locals) ==
    /\ pc' = [pc EXCEPT ![t] = label]
    /\ cur' = [cur EXCEPT ![t] = locals]
    /\ UNCHANGED << calls, clock >>

\* Executor::insert, lines 69-120: the body is tested, the document built and
\* serialized, and under the pager lock the page is allocated and written.
InsertWrite(t) ==
    /\ pc[t] = "insert_write"
    /\ IF ~ReachesAllocate(cur[t].body)
       THEN Return(t, Err("InvalidDocument")) /\ UNCHANGED docVars
       ELSE LET doc == InsertDocument(cur[t].coll, cur[t].body, cur[t].id)
                w == WriteNewDocument(file, page_count, doc)
            IN /\ file' = w.file
               /\ page_count' = w.page_count
               /\ UNCHANGED << cache, index, collections >>
               /\ IF ~w.ok THEN Return(t, Err("StorageError"))
                  ELSE Goto(t, "insert_index", [cur[t] EXCEPT !.page = << w.page >>])
    /\ UNCHANGED << histVars, sideVars, vecVars >>

\* Executor::insert, line 123: Index::insert.
InsertIndex(t) ==
    /\ pc[t] = "insert_index"
    /\ LET reg == IndexInsert(index, cur[t].coll, cur[t].id, cur[t].page[1].page_num, 0)
       IN /\ index' = reg.index
          /\ IF reg.ok THEN Goto(t, "insert_meta", cur[t])
             ELSE Return(t, Err("DuplicateKey"))
    /\ UNCHANGED << file, page_count, cache, collections, histVars, sideVars, vecVars >>

\* Executor::insert, line 126: update_collection_metadata.
InsertMeta(t) ==
    /\ pc[t] = "insert_meta"
    /\ collections' = UpdateCollectionMetadata(collections, cur[t].coll, 1)
    /\ Goto(t, "insert_cache", cur[t])
    /\ UNCHANGED << file, page_count, cache, index, histVars, sideVars, vecVars >>

\* Executor::insert, lines 129-131: BufferPool::put, then the id is returned.
InsertCache(t) ==
    /\ pc[t] = "insert_cache"
    /\ cache' \in CachePut(cache, cur[t].page[1])
    /\ Return(t, Ok(cur[t].id))
    /\ UNCHANGED << file, page_count, index, collections, histVars, sideVars, vecVars >>

\* find_by_id has come to res: find_by_id returns it, delete goes on with the
\* document or returns the error (the ? of line 208).
AfterFind(t, res) ==
    IF cur[t].op = "find_by_id" THEN Return(t, res)
    ELSE IF res.ok THEN Goto(t, "delete_remove", [cur[t] EXCEPT !.found = res])
    ELSE Return(t, res)

\* Executor::find_by_id, lines 137-138: Index::find.
FindIndex(t) ==
    /\ pc[t] = "find_index"
    /\ LET entry == IndexFind(index, cur[t].coll, cur[t].id)
       IN IF entry = << >> THEN Return(t, Err("DocumentNotFound"))
          ELSE Goto(t, "find_cache", [cur[t] EXCEPT !.entry = entry])
    /\ UNCHANGED << docVars, histVars, sideVars, vecVars >>

\* Executor::find_by_id, lines 141-143: BufferPool::get; a hit is decoded.
FindCache(t) ==
    /\ pc[t] = "find_cache"
    /\ LET hit == CacheGet(cache, cur[t].entry[1].page_num)
       IN IF hit # << >> THEN AfterFind(t, ExtractDocumentFromPage(hit[1]))
          ELSE Goto(t, "find_read", cur[t])
    /\ UNCHANGED << docVars, histVars, sideVars, vecVars >>

\* Executor::find_by_id, lines 146-148: read_page under the pager lock.
FindRead(t) ==
    /\ pc[t] = "find_read"
    /\ LET rd == ReadPage(file, page_count, cur[t].entry[1].page_num)
       IN IF ~rd.ok THEN AfterFind(t, rd)
          ELSE Goto(t, "find_put", [cur[t] EXCEPT !.page = << rd.val >>])
    /\ UNCHANGED << docVars, histVars, sideVars, vecVars >>

\* Executor::find_by_id, lines 151-153: BufferPool::put, then the page is decoded.
FindPut(t) ==
    /\ pc[t] = "find_put"
    /\ cache' \in CachePut(cache, cur[t].page[1])
    /\ AfterFind(t, ExtractDocumentFromPage(cur[t].page[1]))
    /\ UNCHANGED << file, page_count, index, collections, histVars, sideVars, vecVars >>

\* Executor::update, lines 159-167: the body is tested, then Index::find.
UpdateFind(t) ==
    /\ pc[t] = "update_find"
    /\ IF cur[t].body.t # "obj" THEN Return(t, Err("InvalidDocument"))
       ELSE LET entry == IndexFind(index, cur[t].coll, cur[t].id)
            IN IF entry = << >> THEN Return(t, Err("DocumentNotFound"))
               ELSE Goto(t, "update_write", [cur[t] EXCEPT !.entry = entry])
    /\ UNCHANGED << docVars, histVars, sideVars, vecVars >>

\* Executor::update, lines 170-197: the document is built and serialized, and
\* under the pager lock the page is read and written back.
UpdateWrite(t) ==
    /\ pc[t] = "update_write"
    /\ LET doc == UpdateDocument(cur[t].coll, cur[t].id, cur[t].body)
           w == RewriteDocument(file, page_count, cur[t].entry[1].page_num, doc)
       IN /\ file' = w.file
          /\ page_count' = w.page_count
          /\ IF ~w.res.ok THEN Return(t, w.res)
             ELSE Goto(t, "update_invalidate", cur[t])
    /\ UNCHANGED << cache, index, collections, histVars, sideVars, vecVars >>

\* Executor::update, lines 200-202: BufferPool::remove, then the document is returned.
UpdateInvalidate(t) ==
    /\ pc[t] = "update_invalidate"
    /\ cache' = CacheRemove(cache, cur[t].entry[1].page_num)
    /\ Return(t, Ok(UpdateDocument(cur[t].coll, cur[t].id, cur[t].body)))
    /\ UNCHANGED << file, page_count, index, collections, histVars, sideVars, vecVars >>

\* Executor::delete, lines 211-212: Index::remove.
DeleteRemove(t) ==
    /\ pc[t] = "delete_remove"
    /\ LET entry == IndexFind(index, cur[t].coll, cur[t].id)
       IN /\ index' = IndexRemove(index, cur[t].coll, cur[t].id)
          /\ IF entry = << >> THEN Return(t, Err("DocumentNotFound"))
             ELSE Goto(t, "delete_free", [cur[t] EXCEPT !.entry = entry])
    /\ UNCHANGED << file, page_count, cache, collections, histVars, sideVars, vecVars >>

\* Executor::delete, lines 215-221: under the pager lock the page is read and
\* written back Free.
DeleteFree(t) ==
    /\ pc[t] = "delete_free"
    /\ LET w == FreePage(file, page_count, cur[t].entry[1].page_num)
       IN /\ file' = w.file
          /\ page_count' = w.page_count
          /\ IF ~w.res.ok THEN Return(t, w.res)
             ELSE Goto(t, "delete_invalidate", cur[t])
    /\ UNCHANGED << cache, index, collections, histVars, sideVars, vecVars >>

\* Executor::delete, line 224: BufferPool::remove.
DeleteInvalidate(t) ==
    /\ pc[t] = "delete_invalidate"
    /\ cache' = CacheRemove(cache, cur[t].entry[1].page_num)
    /\ Goto(t, "delete_meta", cur[t])
    /\ UNCHANGED << file, page_count, index, collections, histVars, sideVars, vecVars >>

\* Executor::delete, lines 227-229: update_collection_metadata, then the
\* document find_by_id gave is returned.
DeleteMeta(t) ==
    /\ pc[t] = "delete_meta"
    /\ collections' = UpdateCollectionMetadata(collections, cur[t].coll, -1)
    /\ Return(t, cur[t].found)
    /\ UNCHANGED << file, page_count, cache, index, histVars, sideVars, vecVars >>

NextConc ==
    \E t \in Threads :
        \/ \E call \in ThreadCalls : Invoke(t, call)
        \/ InsertWrite(t)
        \/ InsertIndex(t)
        \/ InsertMeta(t)
        \/ InsertCache(t)
        \/ FindIndex(t)
        \/ FindCache(t)
        \/ FindRead(t)
        \/ FindPut(t)
        \/ UpdateFind(t)
        \/ UpdateWrite(t)
        \/ UpdateInvalidate(t)
        \/ DeleteRemove(t)
        \/ DeleteFree(t)
        \/ DeleteInvalidate(t)
        \/ DeleteMeta(t)

SpecConc == Init /\ [][NextConc]_vars

\* Threads that only insert, with two bodies of the same "_id".
SameIdInserts ==
    { [op |-> "insert", coll |-> "c1", id |-> "x", body |-> BodyX1],
      [op |-> "insert", coll |-> "c1", id |-> "x", body |-> BodyX2] }

NextSameId ==
    \E t \in Threads :
        \/ \E call \in SameIdInserts : Invoke(t, call)
        \/ InsertWrite(t)
        \/ InsertIndex(t)
        \/ InsertMeta(t)
        \/ InsertCache(t)

SpecSameId == Init /\ [][NextSameId]_vars

(* ------------- vector calls of several threads on one handle ---------- *)

\* The side-file while two writers have it open: << >> when there is no file,
\* << data >> when it holds what one save wrote, << data, old >> when the
\* bytes of data are followed by the end of a longer old content.
\* File::create leaves a file of no bytes.
Truncated == << [version |-> 0, collections |-> {}] >>

\* The number of nodes written at the end of a content stands for its length
\* in bytes.
Bytes(side) ==
    IF side = None \/ side = Truncated THEN 0
    ELSE Cardinality(UNION { DOMAIN b.index_bytes.nodes : b \in side[Len(side)].collections })

\* file.write_all(&data) at offset 0 of a file opened by File::create: the
\* bytes beyond the data, written since by another handle, stay.
WriteAll(side, data) ==
    IF Bytes(side) <= Bytes(Some(data)) THEN Some(data) ELSE << data, side[Len(side)] >>

\* The calls of the threads on the vector side.
VectorCalls ==
    { [op |-> "insert_vector", coll |-> "va", id |-> "", body |-> Num("0")],
      [op |-> "sync", coll |-> "", id |-> "", body |-> Num("0")] }

\* Database::create_vector_collection, which waits for the write guard of the
\* map: no save and no insert is under way.
CreateBetweenCalls(config) ==
    /\ \A t \in Threads : pc[t] = "idle"
    /\ CreateVectorCollection("va", config)

\* A thread enters insert_vector or sync (Executor::sync writes nothing of
\* the vectors).
VecInvoke(t, call) ==
    /\ pc[t] = "idle"
    /\ Len(calls) < MaxCalls
    /\ calls' = Append(calls, [t |-> t, op |-> call.op, coll |-> call.coll, id |-> call.id,
                               body |-> call.body, inv |-> clock + 1, ret |-> 0,
                               res |-> Err("pending")])
    /\ clock' = clock + 1
    /\ cur' = [cur EXCEPT ![t] = [IdleCall EXCEPT !.k = Len(calls) + 1, !.op = call.op,
                                  !.coll = call.coll]]
    /\ pc' = [pc EXCEPT ![t] = IF call.op = "sync" THEN "save_snapshot" ELSE "vec_insert"]
    /\ UNCHANGED << docVars, histVars, sideVars, vecVars >>

\* Database::insert_vector, lines 325-331: under the read guard of the map the
\* vector is inserted into the collection.
VecInsert(t, vector, layer) ==
    /\ pc[t] = "vec_insert"
    /\ IF cur[t].coll \notin DOMAIN vector_collections
       THEN /\ Return(t, Err("CollectionNotFound"))
            /\ UNCHANGED vecVars
       ELSE /\ vector_collections[cur[t].coll].index.next_id < MaxVectors
            /\ layer \in RandomLayer(vector_collections[cur[t].coll].index.config)
            /\ LET o == CollectionInsert(vector_collections[cur[t].coll], vector, None, layer)
               IN /\ vector_collections' = FcnWith(vector_collections, cur[t].coll, o.coll)
                  /\ issued' = IF o.res.ok
                                THEN [issued EXCEPT ![cur[t].coll] =
                                        @ \cup { [id |-> o.res.val, here |-> TRUE] }]
                                ELSE issued
                  /\ IF o.res.ok
                     THEN Goto(t, "save_snapshot", [cur[t] EXCEPT !.found = o.res])
                     ELSE Return(t, o.res)
            /\ UNCHANGED vector_file
    /\ UNCHANGED << docVars, histVars, sideVars >>

\* Database::save_vector_collections, lines 99-127: under the read guard of
\* the map the collections are serialized; with no collection the file is
\* removed and the call returns.
SaveSnapshot(t) ==
    /\ pc[t] = "save_snapshot"
    /\ IF DOMAIN vector_collections = {}
       THEN /\ vector_file' = None
            /\ Return(t, Ok(NoVal))
       ELSE /\ Goto(t, "save_create",
                    [cur[t] EXCEPT !.page = SaveVectorCollections(vector_collections)])
            /\ UNCHANGED vector_file
    /\ UNCHANGED << docVars, histVars, sideVars, vector_collections, issued >>

\* Database::save_vector_collections, lines 129-131: File::create.
SaveCreate(t) ==
    /\ pc[t] = "save_create"
    /\ vector_file' = Truncated
    /\ Goto(t, "save_write", cur[t])
    /\ UNCHANGED << docVars, histVars, sideVars, vector_collections, issued >>

\* Database::save_vector_collections, lines 133-141: write_all and sync_all,
\* and the call returns (insert_vector with the id).
SaveWrite(t) ==
    /\ pc[t] = "save_write"
    /\ vector_file' = WriteAll(vector_file, cur[t].page[1])
    /\ Return(t, IF cur[t].op = "sync" THEN Ok(NoVal) ELSE cur[t].found)
    /\ UNCHANGED << docVars, histVars, sideVars, vector_collections, issued >>

NextSave ==
    \/ \E config \in DefaultConfigs : CreateBetweenCalls(config)
    \/ \E t \in Threads :
          \/ \E call \in VectorCalls : VecInvoke(t, call)
          \/ \E layer \in Layers : VecInsert(t, << "1.5" >>, layer)
          \/ SaveSnapshot(t)
          \/ SaveCreate(t)
          \/ SaveWrite(t)

SpecSave == Init /\ [][NextSave]_vars

(* ------------------------- a buffer pool on its own ------------------- *)

\* The largest capacity a pool is made with.
MaxPoolSize == 3

\* The pages put: Data pages of MaxPages + 1 numbers, each with two payloads.
PoolPages ==
    { NewPage(n, PageTypeData, << d >>) : n \in 0..MaxPages, d \in { 1, 2 } }

\* BufferPool::put
Put(page) ==
    /\ pool' \in { [pool EXCEPT !.cache = c] : c \in PoolPut(pool.cache, page, pool.max_size) }
    /\ UNCHANGED << docVars, histVars, flipped, concVars, vecVars, hnswVars, store, lockVars >>

\* BufferPool::get: reads the cache, changes nothing.
Get(page_num) ==
    /\ Len(CacheGet(pool.cache, page_num)) <= 1
    /\ UNCHANGED vars

\* BufferPool::remove
Remove(page_num) ==
    /\ pool' = [pool EXCEPT !.cache = CacheRemove(@, page_num)]
    /\ UNCHANGED << docVars, histVars, flipped, concVars, vecVars, hnswVars, store, lockVars >>

InitPool ==
    /\ InitDatabase
    /\ pool \in { BufferPoolNew(max_size) : max_size \in 0..MaxPoolSize }
    /\ hnsw = HnswIndexNew(WithDistance(VectorConfigNew(1), "Euclidean"))
    /\ ins = << >>
    /\ srch = << >>
    /\ store = CompressedVectorStoreNew(2, CompressionConfigOf("Delta", 15, 8))
    /\ InitLocks

NextPool ==
    \/ \E page \in PoolPages : Put(page)
    \/ \E page_num \in 0..MaxPages : Get(page_num)
    \/ \E page_num \in 0..MaxPages : Remove(page_num)

SpecPool == InitPool /\ [][NextPool]_vars

\* ---------------------------------------------------------------------------
\* An HnswIndex on its own
\* ---------------------------------------------------------------------------

\* The index takes at most this many inserts (guard of InsertNode, InsertBegin).
MaxNodes == 4

\* The configurations: one dimension, Euclidean, with m = 1 or the default m.
HnswConfigs ==
    { WithM(WithDistance(VectorConfigNew(1), "Euclidean"), 1),
      WithDistance(VectorConfigNew(1), "Euclidean") }

\* The vectors of the dimension, and the vectors the calls are tried with.
Points == { << "0.5" >>, << "1.5" >>, << "2.5" >> }
HnswVectors == Points \cup { << "1.5", "2.5" >> }

unitFrame == << docVars, histVars, flipped, concVars, vecVars, pool, store, lockVars >>

\* HnswIndex::insert, run alone
InsertNode(vector, layer) ==
    /\ ins = << >>
    /\ hnsw.next_id < MaxNodes
    /\ layer \in RandomLayer(hnsw.config)
    /\ hnsw' = HnswInsert(hnsw, vector, layer).index
    /\ UNCHANGED << unitFrame, ins, srch >>

\* HnswIndex::delete (one critical section of the table)
DeleteNode(id) ==
    /\ hnsw' \in { o.index : o \in HnswDelete(hnsw, id) }
    /\ UNCHANGED << unitFrame, ins, srch >>

\* HnswIndex::search, run alone: reads the index, changes nothing.
Search(query, k) ==
    /\ Len(HnswSearch(hnsw, query, k).found) <= k
    /\ UNCHANGED vars

\* HnswIndex::insert_with_metadata up to the loop that links the node.
InsertBegin(vector, layer) ==
    /\ ins = << >>
    /\ hnsw.next_id < MaxNodes
    /\ layer \in RandomLayer(hnsw.config)
    /\ LET start == InsertStart(hnsw, vector, layer)
       IN /\ hnsw' = start.index
          /\ ins' = start.job
    /\ UNCHANGED << unitFrame, srch >>

\* One round of the loop: search_layer under the read lock, then the links
\* under the write lock.  A search that fails ends the call.
InsertLink ==
    /\ ins # << >>
    /\ ins[1].lc >= 0
    /\ LET linked == LinkLayer(hnsw, ins[1])
       IN /\ hnsw' = linked.index
          /\ ins' = IF linked.ok THEN << linked.job >> ELSE << >>
    /\ UNCHANGED << unitFrame, srch >>

\* The node enters the table; max_layer and the entry point follow.
InsertEnd ==
    /\ ins # << >>
    /\ ins[1].lc < 0
    /\ hnsw' = FinishInsert(hnsw, ins[1])
    /\ ins' = << >>
    /\ UNCHANGED << unitFrame, srch >>

\* HnswIndex::search, lines 467-481: the entry point and max_layer are read.
SearchBegin(query) ==
    /\ srch = << >>
    /\ Len(query) = hnsw.config.dimensions
    /\ hnsw.entry_point # None
    /\ srch' = << [query |-> query, entry |-> hnsw.entry_point[1],
                   max_layer |-> hnsw.max_layer] >>
    /\ UNCHANGED << unitFrame, hnsw, ins >>

\* HnswIndex::search, lines 483-491: the layers are searched and the call returns.
SearchEnd ==
    /\ srch # << >>
    /\ srch' = << >>
    /\ UNCHANGED << unitFrame, hnsw, ins >>

InitHnsw ==
    /\ InitDatabase
    /\ pool = BufferPoolNew(CacheSize)
    /\ hnsw \in { HnswIndexNew(config) : config \in HnswConfigs }
    /\ ins = << >>
    /\ srch = << >>
    /\ store = CompressedVectorStoreNew(2, CompressionConfigOf("Delta", 15, 8))
    /\ InitLocks

NextHnsw ==
    \/ \E vector \in HnswVectors, layer \in Layers : InsertNode(vector, layer)
    \/ \E id \in 0..(MaxNodes - 1) : DeleteNode(id)
    \/ \E query \in HnswVectors, k \in 0..MaxNodes : Search(query, k)

SpecHnsw == InitHnsw /\ [][NextHnsw]_vars

\* One thread inserts and deletes while another searches.
NextHnswConc ==
    \/ \E vector \in HnswVectors, layer \in Layers : InsertBegin(vector, layer)
    \/ InsertLink
    \/ InsertEnd
    \/ \E id \in 0..(MaxNodes - 1) : DeleteNode(id)
    \/ \E query \in Points : SearchBegin(query)
    \/ SearchEnd

SpecHnswConc == InitHnsw /\ [][NextHnswConc]_vars

\* ---------------------------------------------------------------------------
\* A CompressedVectorStore on its own
\* ---------------------------------------------------------------------------

\* The store takes at most this many inserts of a vector of its dimensions
\* (guard of StoreInsertCall).
MaxStored == 3

\* The configurations: no compression, and Delta with deltas of half the
\* components allowed and every second insert an anchor.
StoreConfigs ==
    { CompressionConfigOf("None", 15, 8), CompressionConfigOf("Delta", 50, 2) }

\* Vectors of the store's two dimensions, and one that is too short.
StoreVectors == { << 1, 1 >>, << 1, 3 >>, << 3 >> }

\* CompressedVectorStore::insert.  A call that does not return (get_full on a
\* cycle of bases) is not a step.
StoreInsertCall(id, vector, neighbor_id) ==
    /\ store.total_count < MaxStored
    /\ neighbor_id # None => GetFull(store, neighbor_id[1]).is # "overflow"
    /\ store' = StoreInsert(store, id, vector, neighbor_id).store
    /\ UNCHANGED << docVars, histVars, flipped, concVars, vecVars, pool, hnswVars, lockVars >>

\* CompressedVectorStore::remove
StoreRemoveCall(id) ==
    /\ store' = StoreRemove(store, id).store
    /\ UNCHANGED << docVars, histVars, flipped, concVars, vecVars, pool, hnswVars, lockVars >>

InitStore ==
    /\ InitDatabase
    /\ pool = BufferPoolNew(CacheSize)
    /\ hnsw = HnswIndexNew(WithDistance(VectorConfigNew(1), "Euclidean"))
    /\ ins = << >>
    /\ srch = << >>
    /\ store \in { CompressedVectorStoreNew(2, config) : config \in StoreConfigs }
    /\ InitLocks

\* A vector collection and a store, each on its own.
NextReject ==
    \/ \E config \in DefaultConfigs : CreateVectorCollection("va", config)
    \/ \E vector \in Embeddings, metadata \in Metadatas, layer \in Layers :
          InsertVector("va", vector, metadata, layer)
    \/ \E id \in 0..(MaxStored - 1), vector \in StoreVectors,
          neighbor_id \in { None } \cup { Some(n) : n \in 0..(MaxStored - 1) } :
          StoreInsertCall(id, vector, neighbor_id)
    \/ \E id \in 0..(MaxStored - 1) : StoreRemoveCall(id)

SpecReject == InitStore /\ [][NextReject]_vars

\* The configurations of a store on its own: those above and the default one
\* (CompressionConfig::default: Delta, every eighth insert an anchor).
\* and Delta and QuantizedDelta with a threshold of 0.6 and half the components
\* allowed.
DeltaStoreConfigs ==
    StoreConfigs \cup
    { CompressionConfigOf("Delta", 15, 8),
      WithThreshold(CompressionConfigOf("Delta", 50, 8), 600),
      WithThreshold(CompressionConfigOf("QuantizedDelta", 50, 8), 600) }

\* The vectors of a store on its own (components in halves).
DeltaStoreVectors == StoreVectors \cup { << 3, 4 >> }

InitDeltaStore ==
    /\ InitDatabase
    /\ pool = BufferPoolNew(CacheSize)
    /\ hnsw = HnswIndexNew(WithDistance(VectorConfigNew(1), "Euclidean"))
    /\ ins = << >>
    /\ srch = << >>
    /\ store \in { CompressedVectorStoreNew(2, config) : config \in DeltaStoreConfigs }
    /\ InitLocks

\* The calls of a CompressedVectorStore, one after another (&mut self).
NextStore ==
    \/ \E id \in 0..(MaxStored - 1), vector \in DeltaStoreVectors,
          neighbor_id \in { None } \cup { Some(n) : n \in 0..(MaxStored - 1) } :
          StoreInsertCall(id, vector, neighbor_id)
    \/ \E id \in 0..(MaxStored - 1) : StoreRemoveCall(id)

SpecStore == InitDeltaStore /\ [][NextStore]_vars

\* ---------------------------------------------------------------------------
\* The calls of two threads as their lock steps
\* ---------------------------------------------------------------------------

\* insert_vector is called while the ids given out and the inserts under way
\* are fewer than this (guard of Begin).
MaxLockIds == 2

\* The calls on the documents: each as it runs to its end, and find_by_id as
\* it ends on a page of the buffer pool.
DocumentLockCalls ==
    { LockCallOf("insert", ExecInsertSteps("ok"), 0, FALSE, FALSE, FALSE),
      LockCallOf("find_by_id", ExecFindByIdSteps("hit"), 0, FALSE, FALSE, FALSE),
      LockCallOf("find_by_id", ExecFindByIdSteps("read"), 0, FALSE, FALSE, FALSE),
      LockCallOf("update", ExecUpdateSteps("ok"), 0, FALSE, FALSE, FALSE),
      LockCallOf("delete", ExecDeleteSteps("read"), 0, FALSE, FALSE, FALSE),
      LockCallOf("find_all", ExecFindAllSteps("read"), 0, FALSE, FALSE, FALSE) }

\* The calls on the vector collection "va" and sync.
VectorLockCalls ==
    { LockCallOf("sync", SyncSteps, 0, FALSE, FALSE, FALSE),
      LockCallOf("create_vector_collection", CreateSteps, 0, FALSE, FALSE, FALSE),
      LockCallOf("drop_vector_collection", DropSteps, 0, FALSE, FALSE, FALSE) }
    \cup { LockCallOf("insert_vector", InsertVectorSteps, 0, fits, meta, top) :
             fits \in BOOLEAN, meta \in BOOLEAN, top \in BOOLEAN }
    \cup { LockCallOf("delete_vector", DeleteVectorSteps, id, FALSE, FALSE, FALSE) :
             id \in 0..(MaxLockIds - 1) }
    \cup { LockCallOf("vector_search", SearchSteps, 0, fits, FALSE, FALSE) :
             fits \in BOOLEAN }

LockCalls == DocumentLockCalls \cup VectorLockCalls

lockFrame == << docVars, histVars, flipped, concVars, vecVars, pool, hnswVars, store >>

\* The inserts into the vector collection that are under way.
InsertsUnderWay == { t \in Threads : run[t].op = "insert_vector" /\ run[t].prog # << >> }

\* Thread t calls.
Begin(t, call) ==
    /\ run[t].prog = << >>
    /\ call.prog # << >>
    /\ call.op = "insert_vector" =>
          shared.next_id + Cardinality(InsertsUnderWay) < MaxLockIds
    /\ run' = [run EXCEPT ![t] = call]
    /\ UNCHANGED << locks, shared, lockFrame >>

\* RwLock::read, RwLock::write: thread t is given the guard it asks for.
Acquire(t) ==
    /\ run[t].prog # << >>
    /\ Head(run[t].prog).k = "acq"
    /\ Grantable(locks[Head(run[t].prog).lock], Head(run[t].prog).mode)
    /\ locks' = [locks EXCEPT ![Head(run[t].prog).lock] =
                                  @ \cup { Guard(t, Head(run[t].prog).mode) }]
    /\ run' = [run EXCEPT ![t].prog = Tail(@)]
    /\ UNCHANGED << shared, lockFrame >>

\* Thread t drops its guard on a lock.
Release(t) ==
    /\ run[t].prog # << >>
    /\ Head(run[t].prog).k = "rel"
    /\ locks' = [locks EXCEPT ![Head(run[t].prog).lock] =
                                  { g \in @ : g.thread # t }]
    /\ run' = [run EXCEPT ![t].prog = Tail(@)]
    /\ UNCHANGED lockFrame
    /\ UNCHANGED shared

\* Thread t, under the guards it holds, reads or writes what its call goes on
\* from.
Decide(t) ==
    /\ run[t].prog # << >>
    /\ Head(run[t].prog).k = "br"
    /\ \E o \in Branch(Head(run[t].prog).tag, shared,
                       [run[t] EXCEPT !.prog = Tail(@)]) :
          /\ shared' = o.shared
          /\ run' = [run EXCEPT ![t] = [o.loc EXCEPT !.prog = o.prog]]
    /\ UNCHANGED << locks, lockFrame >>

NextLock ==
    \/ \E t \in Threads, call \in LockCalls : Begin(t, call)
    \/ \E t \in Threads : Acquire(t)
    \/ \E t \in Threads : Release(t)
    \/ \E t \in Threads : Decide(t)

SpecLock == Init /\ [][NextLock]_vars

(* ===================== properties of the document store =============== *)

\* The result is the error e.
IsErr(r, e) == ~r.ok /\ r.err = e

\* Two results are the same outcome with the same value.
SameResult(a, b) == a.ok = b.ok /\ a.err = b.err /\ (a.ok => a.val = b.val)

\* A body without its reserved members.
Stripped(body) == Obj(MapRemove(MapRemove(body.m, "_id"), "_collection"))

\* The data of a returned document without the injected member.
WithoutCollection(data) == Obj(MapRemove(data.m, "_collection"))

\* The documents inserted through the open handle and not written or deleted since.
InsertedHere == { k \in DOMAIN docs : docs[k].op = "insert" /\ docs[k].here }

\* The page the index holds for a document.
PageOf(k) == IndexFind(index, k[1], k[2])[1].page_num

\* C1 (as claimed): find_by_id of a document inserted through this handle returns
\* that id with a body that, without "_collection", equals the inserted body B,
\* whatever was done to other documents since.
C1_RoundTripWholeBody ==
    \A k \in InsertedHere :
        LET r == FindResult(Ex, k[1], k[2])
        IN /\ r.ok
           /\ r.val.id = k[2]
           /\ WithoutCollection(r.val.data) = docs[k].body

\* C1 (amended): find_by_id of a document inserted through this handle returns
\* that id with a body that, without "_collection", equals B without its reserved
\* members "_id" and "_collection", whatever was done to other documents since.
C1_RoundTrip ==
    \A k \in InsertedHere :
        LET r == FindResult(Ex, k[1], k[2])
        IN /\ r.ok
           /\ r.val.id = k[2]
           /\ WithoutCollection(r.val.data) = Stripped(docs[k].body)

\* C1 happens: a document inserted with an explicit id is found after later
\* inserts filled the file and its page left the buffer pool.
C1_RoundTripWitness ==
    /\ page_count = MaxPages
    /\ \E k \in InsertedHere :
          /\ docs[k].body = BodyX1
          /\ ~(PageOf(k) \in DOMAIN cache)
          /\ cache # EmptyFcn
          /\ FindResult(Ex, k[1], k[2]).ok
          /\ FindResult(Ex, k[1], k[2]).val =
                 DocumentWithId("x", Obj([_collection |-> Str(k[1]), v |-> Num("1")]))

\* The pages of the file that decode to document id of collection c.
PagesHolding(c, id) ==
    { p \in 0..(page_count - 1) :
        LET rd == ReadPage(file, page_count, p)
        IN /\ rd.ok
           /\ rd.val.page_type = PageTypeData
           /\ LET d == ExtractDocumentFromPage(rd.val)
              IN d.ok /\ d.val.id = id /\ "_collection" \in DOMAIN d.val.data.m
                      /\ d.val.data.m["_collection"] = Str(c) }

\* C2: an insert carrying "_id" = x into a collection that holds x fails with
\* DuplicateKey, and find_by_id of x and the count are what they were; into a
\* collection that does not hold x (whatever the other collections hold) it
\* succeeds with id x.
C2_DuplicateRejected ==
    \A c \in Collections, body \in { BodyX1, BodyX2 } :
        \A o \in ExecInsert(Ex, c, body, Uuid(uuid_next + 1)) :
            IF IndexFind(index, c, "x") # << >>
            THEN /\ IsErr(o.res, "DuplicateKey")
                 /\ SameResult(FindResult(o.ex, c, "x"), FindResult(Ex, c, "x"))
                 /\ ExecCount(o.ex, c) = ExecCount(Ex, c)
            ELSE /\ o.res.ok
                 /\ o.res.val = "x"
                 /\ ExecCount(o.ex, c) = ExecCount(Ex, c) + 1

\* C2 happens: c1 holds x with the first body, a second insert of x into c1 was
\* refused (its page is in the file, outside the index), and c2 holds x too.
C2_DuplicateRejectedWitness ==
    /\ << "c1", "x" >> \in InsertedHere
    /\ << "c2", "x" >> \in InsertedHere
    /\ docs[<< "c1", "x" >>].body = BodyX1
    /\ FindResult(Ex, "c1", "x").ok
    /\ FindResult(Ex, "c1", "x").val.data.m["v"] = Num("1")
    /\ ExecCount(Ex, "c1") = 1
    /\ \E p \in PagesHolding("c1", "x") :
          /\ p # PageOf(<< "c1", "x" >>)
          /\ ExtractDocumentFromPage(ReadPage(file, page_count, p).val).val.data.m["v"] = Num("2")

\* The body the last successful write of a document gave it.
ExpectedBody(k) == IF docs[k].op = "insert" THEN Stripped(docs[k].body) ELSE docs[k].body

\* The handle holds document k with that body.
Exposes(k) ==
    /\ IndexFind(index, k[1], k[2]) # << >>
    /\ LET r == FindResult(Ex, k[1], k[2])
       IN /\ r.ok
          /\ r.val.id = k[2]
          /\ WithoutCollection(r.val.data) = ExpectedBody(k)

\* Every index entry is a document that was written and not deleted.
OnlyWrittenDocuments ==
    \A c \in IndexListCollections(index) :
        \A id \in IndexListIds(index, c) : << c, id >> \in DOMAIN docs

\* C3: after create and a series of inserts (no update, no delete), sync and
\* drop, the handle a fresh open gives holds the same collections, the same ids
\* in each and the same body for each id.
C3_Persistence ==
    only_inserts =>
        /\ \A k \in DOMAIN docs : ~docs[k].here => Exposes(k)
        /\ OnlyWrittenDocuments
        /\ \A c \in IndexListCollections(index) : \E k \in DOMAIN docs : k[1] = c

\* C4: every document written by a successful insert or update before a
\* drop/open cycle and not deleted is in the rebuilt index and find_by_id returns
\* the body of its last successful write; a deleted document is not in the index.
C4_IndexRebuild ==
    /\ \A k \in DOMAIN docs : ~docs[k].here => Exposes(k)
    /\ OnlyWrittenDocuments

\* Object bodies that fit the page.
FittingBodies == { BodyV2, BodyIdOnly }

\* C7: update(C, id, B) of a document the index holds, B an object that fits the
\* page, succeeds, keeps the index entry (same page) and the page count, keeps
\* count(C), and find_by_id(C, id) returns B from then on.
C7_UpdateInPlace ==
    /\ \A c \in Collections :
         \A id \in IndexListIds(index, c), body \in FittingBodies :
            LET o == ExecUpdate(Ex, c, id, body)
                r == FindResult(o.ex, c, id)
            IN /\ o.res.ok
               /\ o.ex.index = index
               /\ o.ex.page_count = page_count
               /\ ExecCount(o.ex, c) = ExecCount(Ex, c)
               /\ r.ok
               /\ r.val.id = id
               /\ WithoutCollection(r.val.data) = body
    /\ \A k \in DOMAIN docs : (docs[k].op = "update" /\ docs[k].here) => Exposes(k)

\* C8: delete(C, id) of a document the index holds returns the stored document,
\* removes the index entry and leaves the page Free with a zeroed payload; then
\* find_by_id(C, id) fails with DocumentNotFound, and a second delete fails with
\* DocumentNotFound and changes no page and no index entry.
C8_Delete ==
    \A c \in Collections :
        \A id \in IndexListIds(index, c) :
            \A o \in ExecDelete(Ex, c, id) :
                LET p == IndexFind(index, c, id)[1].page_num
                IN /\ o.res.ok
                   /\ SameResult(o.res, FindResult(Ex, c, id))
                   /\ IndexFind(o.ex.index, c, id) = << >>
                   /\ o.ex.file[p + 1].page_type = PageTypeFree
                   /\ o.ex.file[p + 1].data = Zeroes(DataSize)
                   /\ IsErr(FindResult(o.ex, c, id), "DocumentNotFound")
                   /\ \A again \in ExecDelete(o.ex, c, id) :
                         /\ IsErr(again.res, "DocumentNotFound")
                         /\ again.ex.file = o.ex.file
                         /\ again.ex.index = o.ex.index

\* C9: on one handle count(C) is the successful inserts into C minus the
\* successful deletes from C, is the number of documents find_all(C, None, None)
\* returns, and is the count list_collections reports for C.
C9_CountAgreement ==
    \A c \in Collections :
        /\ ExecCount(Ex, c) = NetOf(c)
        /\ \A o \in ExecFindAll(Ex, c, None, None) : Len(o.res.val) = ExecCount(Ex, c)
        /\ \A entry \in ExecListCollections(Ex) : entry[1] = c => entry[2] = ExecCount(Ex, c)

\* C5: once a bit of the payload of a Data page was changed in the file behind
\* the handle, find_by_id of the document the index keeps on that page fails with
\* ChecksumMismatch and returns no document.
C5_ChecksumFault ==
    \A page_num \in flipped :
        \A c \in IndexListCollections(index) :
            \A id \in IndexListIds(index, c) :
                IndexFind(index, c, id)[1].page_num = page_num
                    => IsErr(FindResult(Ex, c, id), "ChecksumMismatch")

\* The executor of a handle on a file just created.
EmptyExecutor == ExecutorOf(<< >>, 0, EmptyFcn, EmptyFcn, EmptyFcn)

\* A call made alone on executor ex: the executor it leaves and what it returns.
Alone(ex, call) ==
    IF call.op = "insert"
    THEN CHOOSE o \in ExecInsert(ex, call.coll, call.body, call.id) : TRUE
    ELSE IF call.op = "find_by_id"
    THEN CHOOSE o \in ExecFindById(ex, call.coll, call.id) : TRUE
    ELSE IF call.op = "update" THEN ExecUpdate(ex, call.coll, call.id, call.body)
    ELSE CHOOSE o \in ExecDelete(ex, call.coll, call.id) : TRUE

RECURSIVE Replays(_, _, _)
\* Made one after the other in this order, from the i-th on, the recorded calls
\* return what the threads saw them return.
Replays(ex, order, i) ==
    IF i > Len(order) THEN TRUE
    ELSE LET o == Alone(ex, calls[order[i]])
         IN SameResult(o.res, calls[order[i]].res) /\ Replays(o.ex, order, i + 1)

\* A call that returned before another was invoked comes first in the order.
RespectsRealTime(order) ==
    \A i, j \in 1..Len(order) :
        calls[order[i]].ret < calls[order[j]].inv => i < j

\* C6: when the calls of the threads have all returned, there is an order of
\* them that respects real time and in which the calls, made one after the
\* other on a new handle, return what they returned to the threads.
C6_Linearizable ==
    (\A t \in Threads : pc[t] = "idle") =>
        \E order \in Orders(1..Len(calls)) :
            RespectsRealTime(order) /\ Replays(EmptyExecutor, order, 1)

(* ===================== properties of the vector subsystem ============== *)

\* C10: at every state the calls can reach, sync, handle drop and open give
\* back the vector collections as they are (names, configs, vector ids,
\* embeddings, metadata, next-id counters), and when there is no collection
\* sync leaves no side-file and open yields no collection.
C10_VectorPersistence ==
    LET side == SaveVectorCollections(vector_collections)
    IN /\ LoadVectorCollections(side) = vector_collections
       /\ DOMAIN vector_collections = {} => side = None

(* ===================== properties of the buffer pool =================== *)

\* C18: whatever the capacity (0 and 1 included), the pool never holds more
\* pages than its capacity, and a put into a full pool leaves it with one of
\* its entries gone and the page put in.
C18_CapacityBound ==
    /\ Cardinality(DOMAIN pool.cache) <= pool.max_size
    /\ (DOMAIN pool.cache # {} /\ Cardinality(DOMAIN pool.cache) >= pool.max_size) =>
         \A page \in PoolPages : \A c \in PoolPut(pool.cache, page, pool.max_size) :
            \E key \in DOMAIN pool.cache :
                c = CacheWith(CacheRemove(pool.cache, key), page)

(* ===================== properties of the page file ===================== *)

\* C19: at every state, when a document is deleted and a document is then
\* inserted, the file has no more pages than it had before the delete (the
\* page the delete marked Free is used again).
C19_FreePageReused ==
    \A c \in Collections : \A id \in IndexListIds(index, c) :
        \A gone \in ExecDelete(Ex, c, id) :
            gone.res.ok =>
                \A back \in ExecInsert(gone.ex, c, BodyX1, "x") :
                    back.res.ok => back.ex.page_count <= page_count

\* C20: in every state, between the steps of concurrent calls too, every index
\* entry (c, id) -> page n has n < page_count, the page is a Data page whose
\* checksum validates and whose payload decodes to a document with that id
\* and `_collection` = c, and no two entries point to the same page.
C20_IndexValid ==
    /\ \A c \in DOMAIN index : \A id \in DOMAIN index[c] :
          LET n == index[c][id].page_num
              rd == ReadPage(file, page_count, n)
          IN /\ n < page_count
             /\ rd.ok
             /\ rd.val.page_type = PageTypeData
             /\ LET doc == ExtractDocumentFromPage(rd.val)
                IN /\ doc.ok
                   /\ doc.val.id = id
                   /\ "_collection" \in DOMAIN doc.val.data.m
                   /\ doc.val.data.m["_collection"] = Str(c)
    /\ \A c1 \in DOMAIN index, c2 \in DOMAIN index :
          \A id1 \in DOMAIN index[c1], id2 \in DOMAIN index[c2] :
             index[c1][id1].page_num = index[c2][id2].page_num => (c1 = c2 /\ id1 = id2)

\* ---------------------------------------------------------------------------
\* Properties of the HNSW index
\* ---------------------------------------------------------------------------

\* Every id in a list of neighbours is the id of a node of the table.
NeighborsInTable(ix) ==
    \A n \in DOMAIN ix.nodes :
        \A l \in 1..Len(ix.nodes[n].neighbors) :
            \A i \in 1..Len(ix.nodes[n].neighbors[l]) :
                ix.nodes[n].neighbors[l][i] \in DOMAIN ix.nodes

\* C11: a search that runs while an insert or a delete is under way on the
\* index never fails with NotFound (neither a search that begins now nor the
\* search that has read the entry point already), and no list of neighbours
\* holds an id that is not in the node table.
C11_SearchAtomic ==
    /\ \A q \in Points : HnswSearch(hnsw, q, 1).err # "NotFound"
    /\ srch # << >> =>
          SearchFrom(hnsw, srch[1].query, 1, srch[1].entry, srch[1].max_layer).err
             # "NotFound"
    /\ NeighborsInTable(hnsw)

\* The result of search(v, 1) is one id, of a node that stores v (at distance
\* 0 from v), and it is n when n is the only node that stores v.
ExactMatch(ix, n, result) ==
    /\ result.err = "none"
    /\ Len(result.found) = 1
    /\ result.found[1].distance = 0
    /\ result.found[1].id \in DOMAIN ix.nodes
    /\ ix.nodes[result.found[1].id].vector = ix.nodes[n].vector
    /\ (\A other \in DOMAIN ix.nodes : ix.nodes[other].vector = ix.nodes[n].vector => other = n)
          => result.found[1].id = n

\* C12: after any inserts and deletes, for every vector v stored in the index
\* search(v, 1) returns the id of a stored vector at distance 0 from v (v's own
\* id when no other stored vector equals v).
C12_ExactMatch ==
    ins = << >> =>
        \A n \in DOMAIN hnsw.nodes :
            ExactMatch(hnsw, n, HnswSearch(hnsw, hnsw.nodes[n].vector, 1))

\* The result of search(q, k) on an index of n nodes has min(k, n) entries,
\* with ids that differ.
CountsRight(ix, k, result) ==
    /\ result.err = "none"
    /\ Len(result.found) = IF k < Cardinality(DOMAIN ix.nodes) THEN k
                           ELSE Cardinality(DOMAIN ix.nodes)
    /\ \A i, j \in 1..Len(result.found) :
          i # j => result.found[i].id # result.found[j].id

\* C13: on an index that holds n vectors after inserts alone (every id issued
\* is in the table), search(q, k) with q of the dimension returns exactly
\* min(k, n) results, with pairwise distinct ids.
C13_ResultCount ==
    (ins = << >> /\ Cardinality(DOMAIN hnsw.nodes) = hnsw.next_id) =>
        \A q \in Points : \A k \in 0..MaxNodes :
            CountsRight(hnsw, k, HnswSearch(hnsw, q, k))

\* The entries of a result are in non-decreasing distance, and entries at the
\* same distance are in ascending id.
Ordered(found) ==
    \A i, j \in 1..Len(found) :
        i < j => \/ found[i].distance < found[j].distance
                 \/ /\ found[i].distance = found[j].distance
                    /\ found[i].id < found[j].id

\* C14: the list search(q, k) returns is in non-decreasing distance to q, with
\* results at equal distance in ascending id.
C14_ResultOrder ==
    ins = << >> =>
        \A q \in Points : \A k \in 0..MaxNodes :
            Ordered(HnswSearch(hnsw, q, k).found)

\* ---------------------------------------------------------------------------
\* Properties of the vector collections
\* ---------------------------------------------------------------------------

\* Every entry of a result of a filtered search is of a vector without stored
\* metadata or with stored metadata that meets every condition of the filter.
Sound(coll, filter, found) ==
    \A i \in 1..Len(found) :
        \/ found[i].document.id \notin DOMAIN coll.metadata
        \/ /\ found[i].document.metadata = coll.metadata[found[i].document.id]
           /\ \A field \in DOMAIN filter :
                 ConditionMatches(filter[field],
                                  ValueGet(coll.metadata[found[i].document.id], field))

\* C15: every result of vector_search_filtered(q, k, F) has stored metadata
\* that satisfies every condition of F or has no stored metadata, and there
\* are at most k results.
C15_FilteredSound ==
    \A name \in DOMAIN vector_collections : \A k \in 0..MaxVectors : \A filter \in Filters :
        /\ Len(VectorSearchFiltered(vector_collections, name, << "1.5" >>, k, filter).found)
              <= k
        /\ Sound(vector_collections[name], filter,
                 VectorSearchFiltered(vector_collections, name, << "1.5" >>, k, filter).found)

\* A filtered search returned a vector whose metadata meets the filter and a
\* vector without metadata, and left out a vector whose metadata does not.
C15_FilteredSoundWitness ==
    \E name \in DOMAIN vector_collections :
        /\ Len(VectorSearchFiltered(vector_collections, name, << "1.5" >>, 1,
                                    [v |-> [op |-> "Eq", value |-> Num("1")]]).found) = 1
        /\ \E id \in DOMAIN vector_collections[name].metadata :
              vector_collections[name].metadata[id] = BodyV2
        /\ \E id \in DOMAIN vector_collections[name].metadata :
              vector_collections[name].metadata[id] = BodyV1

\* C16: every successful insert returns an id greater than every id the
\* collection returned before, whatever was deleted, synced or reopened since.
C16_IdsIncrease ==
    \A name \in DOMAIN vector_collections :
        \A vector \in Embeddings : \A layer \in Layers :
            CollectionInsert(vector_collections[name], vector, None, layer).res.ok =>
                \A i \in issued[name] :
                    CollectionInsert(vector_collections[name], vector, None, layer).res.val
                       > i.id

\* A collection that returned an id, deleted the vector and was reopened can
\* take another insert.
C16_IdsIncreaseWitness ==
    \E name \in DOMAIN vector_collections :
        /\ \E i \in issued[name] :
              /\ ~i.here
              /\ i.id \notin DOMAIN vector_collections[name].index.nodes
        /\ CollectionInsert(vector_collections[name], << "1.5" >>, None, 0).res.ok

\* ---------------------------------------------------------------------------
\* Properties of rejected inserts
\* ---------------------------------------------------------------------------

\* The collection rejects the vector and is left as it is: the nodes, the next
\* id, the metadata, the length and what every search returns.
CollectionRejects(coll, outcome) ==
    /\ ~outcome.res.ok
    /\ outcome.coll.index.nodes = coll.index.nodes
    /\ outcome.coll.index.next_id = coll.index.next_id
    /\ outcome.coll.metadata = coll.metadata
    /\ outcome.coll = coll
    /\ \A query \in Embeddings, k \in 0..MaxVectors :
          CollectionSearch(outcome.coll, query, k) = CollectionSearch(coll, query, k)

\* C17: an insert of a vector whose length is not the collection's dimensions
\* fails and commits nothing: no node, no id, no metadata, the length and every
\* search result as before; CompressedVectorStore::insert of a vector of the
\* wrong length returns false and leaves vectors, anchors and total_count as
\* they are.
C17_RejectedInsertCommitsNothing ==
    /\ \A name \in DOMAIN vector_collections :
          \A vector \in Embeddings, metadata \in Metadatas, layer \in Layers :
              Len(vector) # vector_collections[name].config.dimensions =>
                  CollectionRejects(vector_collections[name],
                                    CollectionInsert(vector_collections[name], vector,
                                                     metadata, layer))
    /\ \A id \in 0..(MaxStored - 1), vector \in StoreVectors,
          neighbor_id \in { None } \cup { Some(n) : n \in 0..(MaxStored - 1) } :
          Len(vector) # store.dimensions =>
              /\ ~StoreInsert(store, id, vector, neighbor_id).res
              /\ StoreInsert(store, id, vector, neighbor_id).store.vectors = store.vectors
              /\ StoreInsert(store, id, vector, neighbor_id).store.anchors = store.anchors
              /\ StoreInsert(store, id, vector, neighbor_id).store.total_count
                     = store.total_count

\* A collection with a vector and its metadata that rejects a vector that is
\* too long, and a store with an anchor and a delta on it that rejects a vector
\* that is too short.
C17_RejectedInsertCommitsNothingWitness ==
    /\ "va" \in DOMAIN vector_collections
    /\ vector_collections["va"].index.nodes # EmptyFcn
    /\ vector_collections["va"].metadata # EmptyFcn
    /\ ~CollectionInsert(vector_collections["va"], << "1.5", "2.5" >>, Some(BodyV1), 0).res.ok
    /\ store.anchors # {}
    /\ \E id \in DOMAIN store.vectors : store.vectors[id].kind = "Delta"
    /\ ~StoreInsert(store, 0, << 3 >>, Some(0)).res

\* ---------------------------------------------------------------------------
\* Properties of the locks
\* ---------------------------------------------------------------------------

\* The locks thread t holds a guard on.
Held(t) == { l \in LockNames : \E g \in locks[l] : g.thread = t }

\* Thread t asks for a guard on lock l.
Requests(t, l) ==
    /\ run[t].prog # << >>
    /\ Head(run[t].prog).k = "acq"
    /\ Head(run[t].prog).lock = l

\* The threads whose guards keep thread t from the guard it asks for.
WaitsFor(t) ==
    IF run[t].prog # << >> /\ Head(run[t].prog).k = "acq"
          /\ ~Grantable(locks[Head(run[t].prog).lock], Head(run[t].prog).mode)
    THEN { g.thread : g \in locks[Head(run[t].prog).lock] }
    ELSE {}

RECURSIVE WaitsBehind(_, _)
\* The threads thread t waits for through at most n threads in between.
WaitsBehind(ts, n) ==
    IF n = 0 THEN ts
    ELSE WaitsBehind(ts \cup UNION { WaitsFor(u) : u \in ts }, n - 1)

\* The order in which the locks are taken.
LockOrder ==
    \A t \in Threads :
        /\ Requests(t, "pager") => "cache" \notin Held(t)
        /\ Requests(t, "index") => "pager" \notin Held(t)
        /\ Requests(t, "vector_collections") => Held(t) \cap CollectionLocks = {}

\* No thread waits, through the threads it waits for, for itself.
NoWaitCycle ==
    \A t \in Threads : t \notin WaitsBehind(WaitsFor(t), Cardinality(Threads))

\* C21: no thread asks for the pager lock while it holds the buffer-pool lock,
\* for the index lock while it holds the pager lock, or for the lock of the map
\* of vector collections while it holds a lock of a collection; and no
\* interleaving of the calls reaches a state in which threads wait for each
\* other in a cycle.
C21_LockDiscipline == LockOrder /\ NoWaitCycle

\* ---------------------------------------------------------------------------
\* Properties of the HNSW graph
\* ---------------------------------------------------------------------------

\* The highest layer of a node of the table (0 when there is none).
TopLayer(ix) ==
    IF DOMAIN ix.nodes = {} THEN 0
    ELSE CHOOSE l \in Layers :
            /\ \E n \in DOMAIN ix.nodes : ix.nodes[n].layer = l
            /\ \A n \in DOMAIN ix.nodes : ix.nodes[n].layer <= l

\* C22: after every completed insert or delete on a graph that is not empty
\* there is an entry point, it is a node of the table, its layer is max_layer,
\* and max_layer is the highest layer of the nodes of the table.
C22_EntryPoint ==
    (ins = << >> /\ DOMAIN hnsw.nodes # {}) =>
        /\ hnsw.entry_point # None
        /\ hnsw.entry_point[1] \in DOMAIN hnsw.nodes
        /\ hnsw.nodes[hnsw.entry_point[1]].layer = hnsw.max_layer
        /\ hnsw.max_layer = TopLayer(hnsw)

\* The first insert into the empty graph ix gave out: the new node is the entry
\* point and its layer is max_layer.
FirstInsert(ix, layer, out) ==
    /\ out.res.ok
    /\ DOMAIN out.index.nodes = { out.res.val }
    /\ out.index.entry_point = Some(out.res.val)
    /\ out.index.max_layer = layer
    /\ out.index.nodes[out.res.val].layer = layer

\* C23: under inserts and deletes run one after the other the graph is Empty
\* (no node, no entry point, every search returns the empty list) exactly when
\* no inserted node is left, and Active (the entry point is a node of the
\* table) otherwise; the first insert into an Empty graph makes the new node
\* the entry point, with max_layer its layer.
C23_EmptyOrActive ==
    ins = << >> =>
        /\ DOMAIN hnsw.nodes = {} <=> hnsw.entry_point = None
        /\ DOMAIN hnsw.nodes = {} =>
              /\ \A q \in Points, k \in 0..MaxNodes :
                    HnswSearch(hnsw, q, k) = [err |-> "none", found |-> << >>]
              /\ \A vector \in Points, layer \in RandomLayer(hnsw.config) :
                    FirstInsert(hnsw, layer, HnswInsert(hnsw, vector, layer))
        /\ DOMAIN hnsw.nodes # {} => hnsw.entry_point[1] \in DOMAIN hnsw.nodes

\* Every node that was inserted has been deleted: the graph is Empty again, and
\* a first insert is tried on it.
C23_EmptyOrActiveWitness ==
    /\ ins = << >>
    /\ hnsw.next_id >= 2
    /\ DOMAIN hnsw.nodes = {}
    /\ hnsw.entry_point = None
    /\ HnswInsert(hnsw, << "0.5" >>, MaxLayers - 1).res.ok

\* C24: after any inserts and deletes, every id in the list of a node at layer
\* l is the id of a node of the table whose layer is at least l.
C24_LayerMembership ==
    ins = << >> =>
        \A n \in DOMAIN hnsw.nodes :
            \A l \in 1..Len(hnsw.nodes[n].neighbors) :
                \A i \in 1..Len(hnsw.nodes[n].neighbors[l]) :
                    /\ hnsw.nodes[n].neighbors[l][i] \in DOMAIN hnsw.nodes
                    /\ hnsw.nodes[hnsw.nodes[n].neighbors[l][i]].layer >= l - 1

\* b is in the list of a at layer l (the lists of a node start at layer 0).
Linked(ix, a, b, l) ==
    /\ l < Len(ix.nodes[a].neighbors)
    /\ \E i \in 1..Len(ix.nodes[a].neighbors[l + 1]) : ix.nodes[a].neighbors[l + 1][i] = b

\* C25: after every completed insert, for every layer l and nodes a and b, b is
\* in the list of a at layer l if and only if a is in the list of b at layer l.
C25_EdgeSymmetry ==
    ins = << >> =>
        \A a, b \in DOMAIN hnsw.nodes : \A l \in Layers :
            Linked(hnsw, a, b, l) <=> Linked(hnsw, b, a, l)

\* A list of old that the call cut: it was full (2 m ids) and is another now.
Pruned(ix, old, n, l) ==
    /\ Len(old.nodes[n].neighbors[l]) + 1 > 2 * ix.config.m
    /\ ix.nodes[n].neighbors[l] # old.nodes[n].neighbors[l]

\* Every list of every node of ix holds at most bound ids.
DegreeAtMost(ix, bound) ==
    \A n \in DOMAIN ix.nodes :
       \A l \in 1..Len(ix.nodes[n].neighbors) : Len(ix.nodes[n].neighbors[l]) <= bound

\* C26: after a completed insert every list of neighbours holds at most 2 m
\* ids, the lists of the new node hold at most m, and a list that the insert
\* cut holds at most m.
C26_DegreeBound ==
    ins = << >> =>
       /\ DegreeAtMost(hnsw, 2 * hnsw.config.m)
       /\ \A vector \in Points, layer \in RandomLayer(hnsw.config) :
             With(HnswInsert(hnsw, vector, layer), LAMBDA out :
                (out.res.ok /\ out.res.val \in DOMAIN out.index.nodes) =>
                   /\ DegreeAtMost(out.index, 2 * hnsw.config.m)
                   /\ \A l \in 1..(layer + 1) :
                         Len(out.index.nodes[out.res.val].neighbors[l]) <= hnsw.config.m
                   /\ \A n \in DOMAIN hnsw.nodes :
                         \A l \in 1..Len(hnsw.nodes[n].neighbors) :
                            Pruned(out.index, hnsw, n, l) =>
                               Len(out.index.nodes[n].neighbors[l]) <= hnsw.config.m)

\* A graph with a full list that the next insert cuts.
C26_DegreeBoundWitness ==
    /\ ins = << >>
    /\ hnsw.next_id < MaxNodes
    /\ \E layer \in RandomLayer(hnsw.config) :
          With(HnswInsert(hnsw, << "0.5" >>, layer), LAMBDA out :
             /\ out.res.ok
             /\ \E n \in DOMAIN hnsw.nodes :
                   \E l \in 1..Len(hnsw.nodes[n].neighbors) :
                      /\ Len(hnsw.nodes[n].neighbors[l]) = 2 * hnsw.config.m
                      /\ Pruned(out.index, hnsw, n, l))

\* The ids in the lists of neighbours of ix.
NeighborIds(ix) ==
    UNION { UNION { { ix.nodes[n].neighbors[l][i] : i \in 1..Len(ix.nodes[n].neighbors[l]) } :
                    l \in 1..Len(ix.nodes[n].neighbors) } :
            n \in DOMAIN ix.nodes }

\* The ids that the searches of ix return.
SearchedIds(ix) ==
    UNION { { HnswSearch(ix, query, k).found[i].id :
                i \in 1..Len(HnswSearch(ix, query, k).found) } :
            query \in Points, k \in { MaxNodes } }

\* C27: a delete of a stored id returns true and leaves the id in no list of
\* neighbours, not in the table and not as the entry point, so that get finds
\* nothing and no search returns it; a delete of another id returns false and
\* changes nothing.  Between calls every neighbour id and every id a search
\* returns is the id of a stored node.
C27_DeleteLeavesNoReference ==
    ins = << >> =>
       /\ NeighborIds(hnsw) \subseteq DOMAIN hnsw.nodes
       /\ SearchedIds(hnsw) \subseteq DOMAIN hnsw.nodes
       /\ \A id \in 0..(MaxNodes - 1) : \A out \in HnswDelete(hnsw, id) :
             IF id \in DOMAIN hnsw.nodes
             THEN /\ out.res = Ok(TRUE)
                  /\ id \notin DOMAIN out.index.nodes
                  /\ id \notin NeighborIds(out.index)
                  /\ out.index.entry_point # Some(id)
                  /\ HnswGet(out.index, id) = None
                  /\ id \notin SearchedIds(out.index)
             ELSE /\ out.res = Ok(FALSE)
                  /\ out.index = hnsw

\* A graph whose entry point is in the list of another node, and an id that
\* was deleted before.
C27_DeleteLeavesNoReferenceWitness ==
    /\ ins = << >>
    /\ hnsw.entry_point # None
    /\ hnsw.entry_point[1] \in NeighborIds(hnsw)
    /\ hnsw.entry_point[1] \in SearchedIds(hnsw)
    /\ \E id \in 0..(hnsw.next_id - 1) : id \notin DOMAIN hnsw.nodes

\* ---------------------------------------------------------------------------
\* Properties of the compressed store
\* ---------------------------------------------------------------------------

\* C28: the bases of the stored deltas form no cycle: get_full returns for
\* every stored id.
C28_DecompressionTerminates ==
    \A id \in DOMAIN store.vectors : GetFull(store, id).is # "overflow"

\* The stored vectors that are deltas.
Deltas(st) == { id \in DOMAIN st.vectors : st.vectors[id].kind # "Full" }

\* C29: the base of every stored delta is a stored entry that is an anchor:
\* stored in full and in the set of anchors.
C29_BaseIsAnchor ==
    \A id \in Deltas(store) :
       /\ store.vectors[id].base_id \in DOMAIN store.vectors
       /\ store.vectors[store.vectors[id].base_id].kind = "Full"
       /\ store.vectors[id].base_id \in store.anchors

\* The stored vectors, other than id, that have id as their base.
Dependents(st, id) == { other \in Deltas(st) \ { id } : st.vectors[other].base_id = id }

\* C30: remove(id) returns true only when no other stored vector has id as
\* its base; when one has, it returns false and leaves vectors and anchors as
\* they were; and get_full returns a value for every stored id.
C30_RemoveGuarded ==
    /\ \A id \in 0..(MaxStored - 1) :
          With(StoreRemove(store, id), LAMBDA out :
             IF Dependents(store, id) # {}
             THEN ~out.res /\ out.store = store
             ELSE TRUE)
    /\ \A id \in DOMAIN store.vectors : GetFull(store, id).is = "some"

\* The insert stores the vector relative to a base: it is not an anchor by
\* its count, and the neighbour has a full vector of the store's dimensions.
InsertsRelative(st, vector, neighbor_id) ==
    /\ Len(vector) = st.dimensions
    /\ st.config.mode # "None"
    /\ st.anchors # {}
    /\ (st.total_count + 1) % st.config.anchor_frequency # 0
    /\ neighbor_id # None
    /\ GetFull(st, neighbor_id[1]).is = "some"
    /\ Len(GetFull(st, neighbor_id[1]).val) = Len(vector)

\* The delta of vector against the neighbour is denser than max_density.
TooDense(st, vector, neighbor_id) ==
    Len(SparseDelta(st.config, vector, GetFull(st, neighbor_id[1]).val)) * 100
       > st.config.max_density * Len(vector)

\* C31: every vector kept as Delta or QuantizedDelta has at most max_density
\* of its components stored, and an insert whose delta against its base would
\* be denser stores the vector in full as an anchor.
C31_DensityBound ==
    /\ \A id \in Deltas(store) :
          Len(store.vectors[id].deltas) * 100 <= store.config.max_density * store.dimensions
    /\ \A id \in 0..(MaxStored - 1), vector \in DeltaStoreVectors,
          n \in 0..(MaxStored - 1) :
          (InsertsRelative(store, vector, Some(n)) /\ TooDense(store, vector, Some(n))) =>
             With(StoreInsert(store, id, vector, Some(n)).store, LAMBDA after :
                /\ after.vectors[id] = Full(vector)
                /\ id \in after.anchors)

\* A store that keeps a delta of one component, and where an insert with a
\* denser delta can follow.
C31_DensityBoundWitness ==
    /\ store.total_count < MaxStored
    /\ \E id \in Deltas(store) : Len(store.vectors[id].deltas) = 1
    /\ \E vector \in DeltaStoreVectors, n \in 0..(MaxStored - 1) :
          InsertsRelative(store, vector, Some(n)) /\ TooDense(store, vector, Some(n))

\* get_full(id) returns a vector that differs from x, in each component, by
\* at most sparsity_threshold when id is stored as a Delta and by at most the
\* stored scale when it is stored as a QuantizedDelta.
Close(st, id, x) ==
    /\ GetFull(st, id).is = "some"
    /\ Len(GetFull(st, id).val) = Len(x)
    /\ \A i \in 1..Len(x) :
          IF st.vectors[id].kind = "Delta"
          THEN Abs(GetFull(st, id).val[i] - x[i]) * 1000 <= st.config.sparsity_threshold * 2
          ELSE Abs(GetFull(st, id).val[i] - x[i]) * st.vectors[id].scale.den
                  <= st.vectors[id].scale.num

\* The inserts of the model, with and without a neighbour.
StoreInserts ==
    (0..(MaxStored - 1)) \X DeltaStoreVectors
       \X ({ None } \cup { Some(n) : n \in 0..(MaxStored - 1) })

\* C32: a vector x stored as a delta is returned by get_full within the bound
\* of its mode, when it has been stored and after any later insert of
\* another id.
C32_DecompressedClose ==
    \A first \in StoreInserts :
       With(StoreInsert(store, first[1], first[2], first[3]).store, LAMBDA stored :
          (/\ InsertsRelative(store, first[2], first[3])
           /\ stored.vectors[first[1]].kind # "Full") =>
             /\ Close(stored, first[1], first[2])
             /\ \A next \in StoreInserts :
                   next[1] # first[1] =>
                      Close(StoreInsert(stored, next[1], next[2], next[3]).store,
                            first[1], first[2]))

\* ---------------------------------------------------------------------------
\* Properties of refused and failed inserts
\* ---------------------------------------------------------------------------

\* C33: after inserts of which some were refused with DuplicateKey, then sync,
\* drop and open, the handle holds every document the old handle held, those
\* inserted after the refused one too, each with the body the old handle
\* returned.
C33_RefusedInsertHarmless ==
    only_inserts => \A k \in DOMAIN docs : ~docs[k].here => Exposes(k)

\* ---------------------------------------------------------------------------
\* Properties of concurrent calls
\* ---------------------------------------------------------------------------

\* The page the buffer pool holds under page_num has the kind and the payload
\* of that page in the file.
SameAsOnDisk(page_num) ==
    With(ReadPage(file, page_count, page_num), LAMBDA rd :
       /\ rd.ok
       /\ cache[page_num].page_type = rd.val.page_type
       /\ cache[page_num].data = rd.val.data)

\* No call is under way.
AllIdle == \A t \in Threads : pc[t] = "idle"

\* C34: when no call is under way, every page in the buffer pool has the kind
\* and the payload of that page in the file, so that find_by_id returns from
\* the buffer pool the document it would return from the file.
C34_CacheCoherent ==
    AllIdle =>
       /\ \A page_num \in DOMAIN cache : SameAsOnDisk(page_num)
       /\ \A c \in Collections : \A id \in IndexListIds(index, c) :
             SameResult(FindResult(Ex, c, id),
                        FindResult([Ex EXCEPT !.cache = EmptyFcn], c, id))

\* The ids of the vectors that the side-file holds: none when the file is not
\* what one save wrote.
StoredInFile ==
    IF Len(vector_file) # 1 \/ vector_file = Truncated THEN {}
    ELSE UNION { { U64FromKey(k) : k \in DOMAIN b.index_bytes.nodes } :
                 b \in vector_file[1].collections }

\* The calls of insert_vector that returned an id before call k was invoked.
ReturnedBefore(k) ==
    { j \in 1..Len(calls) :
        /\ calls[j].op = "insert_vector"
        /\ calls[j].res.ok
        /\ calls[j].ret > 0
        /\ calls[j].ret < calls[k].inv }

\* C35: once sync has returned success and no call is under way, the
\* side-file is what one save wrote and holds every vector whose insert_vector
\* returned before the sync was invoked.
C35_SyncDurable ==
    AllIdle =>
       \A k \in 1..Len(calls) :
          (calls[k].op = "sync" /\ calls[k].res.ok /\ vector_collections # EmptyFcn) =>
             /\ Len(vector_file) = 1
             /\ vector_file # Truncated
             /\ \A j \in ReturnedBefore(k) : calls[j].res.val \in StoredInFile

\* Thread t, in the first-node path of insert, holds the write guard of
\* entry_point and waits for nodes, which thread u, in delete, holds for
\* writing while it waits for entry_point.
InsertAndDeleteWait(t, u) ==
    /\ run[t].op = "insert_vector"
    /\ run[u].op = "delete_vector"
    /\ Requests(t, "nodes")
    /\ Guard(t, "W") \in locks["entry_point"]
    /\ Requests(u, "entry_point")
    /\ Guard(u, "W") \in locks["nodes"]
    /\ u \in WaitsFor(t)
    /\ t \in WaitsFor(u)

\* C36: in no interleaving of inserts and deletes on one collection does an
\* insert wait for a delete that waits for the insert: every call returns.
C36_InsertDeleteReturn ==
    \A t \in Threads : \A u \in Threads : ~InsertAndDeleteWait(t, u)

\* C37: whenever no insert, delete or search is under way and the table has a
\* node, the entry point is a node of the table, for every interleaving of an
\* insert with deletes; so a search for k >= 1 neighbours returns a list that
\* is not empty and does not fail for a missing entry point.
C37_EntryPointStored ==
    (ins = << >> /\ srch = << >> /\ DOMAIN hnsw.nodes # {}) =>
        /\ hnsw.entry_point # None
        /\ hnsw.entry_point[1] \in DOMAIN hnsw.nodes
        /\ \A q \in Points, k \in 1..MaxNodes :
              /\ HnswSearch(hnsw, q, k).err = "none"
              /\ HnswSearch(hnsw, q, k).found # << >>

\* The calls of the history that returned success.
Succeeded == { k \in 1..Len(calls) : calls[k].res.ok }

\* Calls j and k of the history ran at the same time.
Overlap(j, k) == calls[j].inv < calls[k].ret /\ calls[k].inv < calls[j].ret

\* C38: when inserts with the same "_id" have run in any interleaving and all
\* have returned, exactly one succeeded, every other failed with duplicate-key,
\* count is 1 and find_by_id returns the body of the call that succeeded.
C38_OneInsertWins ==
    (AllIdle /\ calls # << >>) =>
        /\ Cardinality(Succeeded) = 1
        /\ \A k \in 1..Len(calls) :
              IF k \in Succeeded
              THEN /\ calls[k].res.val = "x"
                   /\ FindResult(Ex, "c1", "x").ok
                   /\ WithoutCollection(FindResult(Ex, "c1", "x").val.data) =
                         Stripped(calls[k].body)
              ELSE IsErr(calls[k].res, "DuplicateKey")
        /\ ExecCount(Ex, "c1") = 1

\* Two inserts of different bodies ran at the same time; the one invoked
\* second succeeded and the first was refused.
C38_OneInsertWinsWitness ==
    /\ AllIdle
    /\ Len(calls) = 2
    /\ Overlap(1, 2)
    /\ calls[1].body # calls[2].body
    /\ calls[2].res.ok
    /\ IsErr(calls[1].res, "DuplicateKey")
    /\ FindResult(Ex, "c1", "x").val.data.m["v"] = calls[2].body.m["v"]

\* The bodies insert refuses: not an object, an "_id" that is not a string,
\* a document longer than the payload of a page.
RefusedBodies == { NotAnObject, BodyBadId, BodyBlob }

\* C39: insert of a body that is not an object, of an "_id" that is not a
\* string, or of a document too long for a page returns an error and leaves
\* page_count, every page of the file, the index and the counts as they were
\* (the calls tried are those the file of MaxPages pages has room for).
C39_FailedInsertChangesNothing ==
    \A c \in Collections, body \in RefusedBodies :
        (ReachesAllocate(body) => page_count < MaxPages) =>
        \A o \in ExecInsert(Ex, c, body, Uuid(uuid_next + 1)) :
            /\ ~o.res.ok
            /\ o.ex.page_count = page_count
            /\ \A n \in 1..page_count : o.ex.file[n] = file[n]
            /\ o.ex.index = index
            /\ o.ex.collections = collections
            /\ ExecCount(o.ex, c) = ExecCount(Ex, c)
====
